---- MODULE Spec2Model ----
(***************************************************************************)
(* Model of the sigma output backends (sigma/backends.py): the dispatch    *)
(* engine, the declarative text engine, the multi-rule backends (Kibana,   *)
(* X-Pack Watcher) with their rule-name registry, and the Qualys backend   *)
(* with its partial-match flag.                                            *)
(*                                                                         *)
(* Text is a sequence of one-character strings, so that replacement,       *)
(* escaping and comparison with a literal such as "()" are computed.       *)
(***************************************************************************)
EXTENDS Integers, Sequences, FiniteSets, TLC

VARIABLES
    backend,          \* identifier of the backend class this instance was built from
    options,          \* self.options (BackendOptions)
    rulenames,        \* MultiRuleOutputMixin.rulenames
    kibanaconf,       \* KibanaBackend.kibanaconf (list)
    watcher_alert,    \* XPackWatcherBackend.watcher_alert (dict, in insertion order)
    PartialMatchFlag, \* QualysBackend.PartialMatchFlag: "False", "True" or "None"
    output,           \* what self.output.print has written, in order
    stdout,           \* what the builtin print has written, in order
    finalized,        \* finalize() has been called
    log               \* the calls made so far: operation, input, what it raised, what it returned

vars == <<backend, options, rulenames, kibanaconf, watcher_alert,
          PartialMatchFlag, output, stdout, finalized, log>>

-----------------------------------------------------------------------------
(* Bounds *)

\* generate calls on one instance
MaxRules == 3

-----------------------------------------------------------------------------
(* Text helpers *)

\* str.join
RECURSIVE Join(_, _)
Join(parts, sep) ==
    IF Len(parts) = 0 THEN <<>>
    ELSE IF Len(parts) = 1 THEN parts[1]
    ELSE parts[1] \o sep \o Join(Tail(parts), sep)

\* str(n) for a non-negative integer: its decimal digits
Digit(d) == <<CASE d = 0 -> "0" [] d = 1 -> "1" [] d = 2 -> "2" [] d = 3 -> "3"
                [] d = 4 -> "4" [] d = 5 -> "5" [] d = 6 -> "6" [] d = 7 -> "7"
                [] d = 8 -> "8" [] OTHER -> "9">>

RECURSIVE Decimal(_)
Decimal(n) == IF n < 10 THEN Digit(n) ELSE Decimal(n \div 10) \o Digit(n % 10)

\* str.replace(" ", "-")
ReplaceSpaces(s) == [i \in 1..Len(s) |-> IF s[i] = " " THEN "-" ELSE s[i]]

\* "%s-%d" % (rulename, cnt)
NameWithCounter(rulename, cnt) == rulename \o <<"-">> \o Decimal(cnt)

IsPrefix(s, t) == Len(s) <= Len(t) /\ SubSeq(t, 1, Len(s)) = s

-----------------------------------------------------------------------------
(* MultiRuleOutputMixin.getRuleName *)

\* the while loop: the first cnt >= 2 whose suffixed name is not registered
RECURSIVE FirstFreeCounter(_, _, _)
FirstFreeCounter(rulename, names, cnt) ==
    IF NameWithCounter(rulename, cnt) \in names
    THEN FirstFreeCounter(rulename, names, cnt + 1)
    ELSE cnt

\* a registration that always takes the first suffix
getRuleNameNoLoop(title, names) ==
    LET rulename == ReplaceSpaces(title)
        chosen == IF rulename \in names THEN NameWithCounter(rulename, 2) ELSE rulename
    IN  [name |-> chosen, rulenames |-> names \cup {chosen}]

\* a registration that forgets the earlier names
getRuleNameForgets(title, names) ==
    LET rulename == ReplaceSpaces(title)
        chosen == IF rulename \in names
                  THEN NameWithCounter(rulename, FirstFreeCounter(rulename, names, 2))
                  ELSE rulename
    IN  [name |-> chosen, rulenames |-> {chosen}]

\* a registration without the collision counter
getRuleNameNoCounter(title, names) ==
    LET rulename == ReplaceSpaces(title)
    IN  [name |-> rulename, rulenames |-> names \cup {rulename}]

\* a registration that keeps the spaces of the title
getRuleNameKeepsSpaces(title, names) ==
    LET chosen == IF title \in names
                  THEN NameWithCounter(title, FirstFreeCounter(title, names, 2))
                  ELSE title
    IN  [name |-> chosen, rulenames |-> names \cup {chosen}]

\* returns the chosen name and the registry after the call
getRuleName(title, names) ==
    LET rulename == ReplaceSpaces(title)
        chosen == IF rulename \in names
                  THEN NameWithCounter(rulename, FirstFreeCounter(rulename, names, 2))
                  ELSE rulename
    IN  [name |-> chosen, rulenames |-> names \cup {chosen}]

-----------------------------------------------------------------------------
(* Parse tree nodes.  Every node is a record whose "type" is the Python    *)
(* type the dispatch inspects: the condition classes of sigma.parser,      *)
(* tuple (a map item), str, int, list, and types the tree must not hold.   *)
(* Fields that hold values of different kinds carry different names        *)
(* (NodeSubexpression.items is "inner", the .item of the null tests is     *)
(* "field"), so that any two nodes can be compared.                        *)

AndNode(items)     == [type |-> "ConditionAND", items |-> items]
OrNode(items)      == [type |-> "ConditionOR", items |-> items]
NotNode(item)      == [type |-> "ConditionNOT", item |-> item]
SubNode(inner)     == [type |-> "NodeSubexpression", inner |-> inner]
NullNode(field)    == [type |-> "ConditionNULLValue", field |-> field]
NotNullNode(field) == [type |-> "ConditionNotNULLValue", field |-> field]
MapItem(key, value) == [type |-> "tuple", key |-> key, value |-> value]
StrNode(str)       == [type |-> "str", str |-> str]
IntNode(int)       == [type |-> "int", int |-> int]
ListNode(items)    == [type |-> "list", items |-> items]
NoneNode           == [type |-> "NoneType"]
BoolNode(bool)     == [type |-> "bool", bool |-> bool]
DictNode           == [type |-> "dict"]

\* str(None)
PyNone == <<"N", "o", "n", "e">>

\* str(node) of a value that is no list
pyStrScalar(node) ==
    CASE node.type = "str" -> node.str
      [] node.type = "int" -> Decimal(node.int)
      [] node.type = "NoneType" -> PyNone
      [] node.type = "bool" -> IF node.bool THEN <<"T", "r", "u", "e">>
                               ELSE <<"F", "a", "l", "s", "e">>
      [] OTHER -> <<"{", "}">>

\* repr of a list item (strings without quotes or backslashes)
pyRepr(node) ==
    IF node.type = "str" THEN <<"'">> \o node.str \o <<"'">> ELSE pyStrScalar(node)

\* str(node) of a value; a list prints the repr of its items
pyStr(node) ==
    IF node.type = "list"
    THEN <<"[">> \o Join([i \in 1..Len(node.items) |-> pyRepr(node.items[i])], <<",", " ">>)
              \o <<"]">>
    ELSE pyStrScalar(node)

\* sub in text
HasSubstring(text, sub) ==
    \E i \in 1..(Len(text) - Len(sub) + 1) : SubSeq(text, i, i + Len(sub) - 1) = sub

\* set([type(value) for value in node]).issubset({str, int})
AllScalars(items) == \A i \in 1..Len(items) : items[i].type \in {"str", "int"}

-----------------------------------------------------------------------------
(* Syntax descriptors: the class attributes of the text backends.  A       *)
(* template "a%sb" is the pair of its text before and after the %s.        *)

\* the backquote character of Qualys' map template
BQ == "backquote"

\* A compiled expression: the single characters it matches, the
\* two-character sequences it matches, and the characters it matches unless
\* one of "unless" follows (a negative lookahead).
NoRegex == [chars |-> {}, pairs |-> {}, guarded |-> {}, unless |-> {}]

ElasticsearchQuerystringBackend ==
    [identifier |-> "es-qs",
     reEscape |-> [chars |-> {"+", "-", "=", "!", "(", ")", "{", "}", "[", "]",
                              "^", "\"", "~", ":", "\\", "/"},
                   pairs |-> {<<"&", "&">>, <<"|", "|">>},
                   guarded |-> {}, unless |-> {}],
     reClear |-> [chars |-> {"<", ">"}, pairs |-> {}, guarded |-> {}, unless |-> {}],
     andToken |-> <<" ", "A", "N", "D", " ">>,
     orToken |-> <<" ", "O", "R", " ">>,
     notToken |-> <<"N", "O", "T", " ">>,
     subExpression |-> [pre |-> <<"(">>, post |-> <<")">>],
     listExpression |-> [pre |-> <<"(">>, post |-> <<")">>],
     listSeparator |-> <<" ">>,
     valueExpression |-> [pre |-> <<"\"">>, post |-> <<"\"">>],
     nullExpression |-> [pre |-> <<"N", "O", "T", " ", "_", "e", "x", "i", "s", "t", "s", "_", ":">>,
                         post |-> <<>>],
     notNullExpression |-> [pre |-> <<"_", "e", "x", "i", "s", "t", "s", "_", ":">>, post |-> <<>>],
     mapExpression |-> [pre |-> <<>>, mid |-> <<":">>, post |-> <<>>],
     mapListsSpecialHandling |-> FALSE,
     mapListValueExpression |-> [pre |-> <<>>, mid |-> <<>>, post |-> <<>>]]

\* Kibana and X-Pack Watcher inherit the es-qs descriptor unchanged
KibanaBackend == [ElasticsearchQuerystringBackend EXCEPT !.identifier = "kibana"]

XPackWatcherBackend == [ElasticsearchQuerystringBackend EXCEPT !.identifier = "xpack-watcher"]

QualysBackend ==
    [identifier |-> "qualys",
     reEscape |-> NoRegex,
     reClear |-> NoRegex,
     andToken |-> <<" ", "a", "n", "d", " ">>,
     orToken |-> <<" ", "o", "r", " ">>,
     notToken |-> <<"n", "o", "t", " ">>,
     subExpression |-> [pre |-> <<"(">>, post |-> <<")">>],
     listExpression |-> [pre |-> <<>>, post |-> <<>>],
     listSeparator |-> <<" ">>,
     valueExpression |-> [pre |-> <<>>, post |-> <<>>],
     nullExpression |-> [pre |-> <<>>, post |-> <<" ", "i", "s", " ", "n", "u", "l", "l">>],
     notNullExpression |-> [pre |-> <<"n", "o", "t", " ", "(">>,
                            post |-> <<" ", "i", "s", " ", "n", "u", "l", "l", ")">>],
     mapExpression |-> [pre |-> <<>>, mid |-> <<":", BQ>>, post |-> <<BQ>>],
     mapListsSpecialHandling |-> TRUE,
     mapListValueExpression |-> [pre |-> <<>>, mid |-> <<>>, post |-> <<>>]]

\* LogPointBackend
LogPointBackend ==
    [identifier |-> "logpoint",
     reEscape |-> [chars |-> {"\"", "\\"}, pairs |-> {}, guarded |-> {}, unless |-> {}],
     reClear |-> NoRegex,
     andToken |-> <<" ">>,
     orToken |-> <<" ", "O", "R", " ">>,
     notToken |-> <<" ", "-">>,
     subExpression |-> [pre |-> <<"(">>, post |-> <<")">>],
     listExpression |-> [pre |-> <<"[">>, post |-> <<"]">>],
     listSeparator |-> <<",", " ">>,
     valueExpression |-> [pre |-> <<"\"">>, post |-> <<"\"">>],
     nullExpression |-> [pre |-> <<"-">>, post |-> <<"=", "*">>],
     notNullExpression |-> [pre |-> <<>>, post |-> <<"=", "*">>],
     mapExpression |-> [pre |-> <<>>, mid |-> <<"=">>, post |-> <<>>],
     mapListsSpecialHandling |-> TRUE,
     mapListValueExpression |-> [pre |-> <<>>, mid |-> <<" ", "I", "N", " ">>, post |-> <<>>]]

\* SplunkBackend
SplunkBackend ==
    [identifier |-> "splunk",
     reEscape |-> [chars |-> {"\"", "\\"}, pairs |-> {}, guarded |-> {}, unless |-> {}],
     reClear |-> NoRegex,
     andToken |-> <<" ">>,
     orToken |-> <<" ", "O", "R", " ">>,
     notToken |-> <<"N", "O", "T", " ">>,
     subExpression |-> [pre |-> <<"(">>, post |-> <<")">>],
     listExpression |-> [pre |-> <<"(">>, post |-> <<")">>],
     listSeparator |-> <<" ">>,
     valueExpression |-> [pre |-> <<"\"">>, post |-> <<"\"">>],
     nullExpression |-> [pre |-> <<"N", "O", "T", " ">>, post |-> <<"=", "\"", "*", "\"">>],
     notNullExpression |-> [pre |-> <<>>, post |-> <<"=", "\"", "*", "\"">>],
     mapExpression |-> [pre |-> <<>>, mid |-> <<"=">>, post |-> <<>>],
     mapListsSpecialHandling |-> TRUE,
     mapListValueExpression |-> [pre |-> <<>>, mid |-> <<" ", "I", "N", " ">>, post |-> <<>>]]

\* ArcSightBackend (no escape or strip expression)
ArcSightBackend ==
    [identifier |-> "as",
     reEscape |-> NoRegex,
     reClear |-> NoRegex,
     andToken |-> <<" ", "A", "N", "D", " ">>,
     orToken |-> <<" ", "O", "R", " ">>,
     notToken |-> <<"N", "O", "T", " ">>,
     subExpression |-> [pre |-> <<"(">>, post |-> <<")">>],
     listExpression |-> [pre |-> <<"(">>, post |-> <<")">>],
     listSeparator |-> <<" ", "O", "R", " ">>,
     valueExpression |-> [pre |-> <<"\"">>, post |-> <<"\"">>],
     nullExpression |-> [pre |-> <<"N", "O", "T", " ", "_", "e", "x", "i", "s", "t", "s", "_", ":">>, post |-> <<>>],
     notNullExpression |-> [pre |-> <<"_", "e", "x", "i", "s", "t", "s", "_", ":">>, post |-> <<>>],
     mapExpression |-> [pre |-> <<>>, mid |-> <<" ", "=", " ">>, post |-> <<>>],
     mapListsSpecialHandling |-> TRUE,
     mapListValueExpression |-> [pre |-> <<>>, mid |-> <<" ", "=", " ">>, post |-> <<>>]]

\* QRadarBackend (no escape or strip expression)
QRadarBackend ==
    [identifier |-> "qradar",
     reEscape |-> NoRegex,
     reClear |-> NoRegex,
     andToken |-> <<" ", "a", "n", "d", " ">>,
     orToken |-> <<" ", "o", "r", " ">>,
     notToken |-> <<"n", "o", "t", " ">>,
     subExpression |-> [pre |-> <<"(">>, post |-> <<")">>],
     listExpression |-> [pre |-> <<>>, post |-> <<>>],
     listSeparator |-> <<" ">>,
     valueExpression |-> [pre |-> <<"'">>, post |-> <<"'">>],
     nullExpression |-> [pre |-> <<>>, post |-> <<" ", "i", "s", " ", "n", "u", "l", "l">>],
     notNullExpression |-> [pre |-> <<"n", "o", "t", " ", "(">>, post |-> <<" ", "i", "s", " ", "n", "u", "l", "l", ")">>],
     mapExpression |-> [pre |-> <<>>, mid |-> <<"=">>, post |-> <<>>],
     mapListsSpecialHandling |-> TRUE,
     mapListValueExpression |-> [pre |-> <<>>, mid |-> <<>>, post |-> <<>>],
     keyExpression |-> [pre |-> <<"\"">>, post |-> <<"\"">>]]

\* GraylogQuerystringBackend: a backslash is escaped unless * or ? follows
GraylogQuerystringBackend ==
    [identifier |-> "graylog",
     reEscape |-> [chars |-> {"+", "-", "!", "(", ")", "{", "}", "[", "]", "^", "\"", "~", ":", "/"},
                   pairs |-> {<<"&", "&">>, <<"|", "|">>},
                   guarded |-> {"\\"}, unless |-> {"*", "?"}],
     reClear |-> NoRegex,
     andToken |-> <<" ", "A", "N", "D", " ">>,
     orToken |-> <<" ", "O", "R", " ">>,
     notToken |-> <<"N", "O", "T", " ">>,
     subExpression |-> [pre |-> <<"(">>, post |-> <<")">>],
     listExpression |-> [pre |-> <<"(">>, post |-> <<")">>],
     listSeparator |-> <<" ">>,
     valueExpression |-> [pre |-> <<"\"">>, post |-> <<"\"">>],
     nullExpression |-> [pre |-> <<"N", "O", "T", " ", "_", "e", "x", "i", "s", "t", "s", "_", ":">>, post |-> <<>>],
     notNullExpression |-> [pre |-> <<"_", "e", "x", "i", "s", "t", "s", "_", ":">>, post |-> <<>>],
     mapExpression |-> [pre |-> <<>>, mid |-> <<":">>, post |-> <<>>],
     mapListsSpecialHandling |-> FALSE,
     mapListValueExpression |-> [pre |-> <<>>, mid |-> <<>>, post |-> <<>>]]

\* GrepBackend: QuoteCharMixin with an escape expression only
GrepBackend ==
    [identifier |-> "grep",
     reEscape |-> [chars |-> {"|", "(", ")", "[", "]", "{", "}", ".", "^", "$"},
                   pairs |-> {}, guarded |-> {}, unless |-> {}],
     reClear |-> NoRegex]

\* FieldnameListBackend
FieldnameListBackend == [identifier |-> "fieldlist"]

\* getBackendDict: the active classes by identifier
Identifiers ==
    {"es-qs", "kibana", "xpack-watcher", "logpoint", "splunk", "grep", "fieldlist",
     "as", "qualys", "qradar", "graylog"}

BackendClass(identifier) ==
    CASE identifier = "es-qs" -> ElasticsearchQuerystringBackend
      [] identifier = "kibana" -> KibanaBackend
      [] identifier = "xpack-watcher" -> XPackWatcherBackend
      [] identifier = "logpoint" -> LogPointBackend
      [] identifier = "splunk" -> SplunkBackend
      [] identifier = "grep" -> GrepBackend
      [] identifier = "fieldlist" -> FieldnameListBackend
      [] identifier = "as" -> ArcSightBackend
      [] identifier = "qradar" -> QRadarBackend
      [] identifier = "graylog" -> GraylogQuerystringBackend
      [] OTHER -> QualysBackend

-----------------------------------------------------------------------------
(* The field-mapping configuration the instance is constructed with, and   *)
(* the allow-list QualysBackend.__init__ flattens from it.                 *)

F_id    == <<"i", "d">>
F_user  == <<"u", "s", "r">>
F_uname == <<"u", "n">>
F_cmd   == <<"c", "m", "d">>

fieldmappings ==
    << [target_type |-> "str",  target |-> <<F_id>>],
       [target_type |-> "list", target |-> <<F_user, F_uname>>] >>

allowedFieldsList ==
    UNION { {fieldmappings[i].target[j] : j \in 1..Len(fieldmappings[i].target)}
            : i \in 1..Len(fieldmappings) }

F_deviceVendor        == <<"d", "e", "v", "i", "c", "e", "V", "e", "n", "d", "o", "r">>
F_categoryDeviceGroup == <<"c", "a", "t", "e", "g", "o", "r", "y", "D", "e", "v", "i", "c", "e", "G", "r", "o", "u", "p">>
F_deviceProduct       == <<"d", "e", "v", "i", "c", "e", "P", "r", "o", "d", "u", "c", "t">>

\* aFL of ArcSightBackend.__init__ and QRadarBackend.__init__ before the
\* field mappings are added
fixedFieldsList == {F_deviceVendor, F_categoryDeviceGroup, F_deviceProduct}

\* self.allowedFieldsList of the instance: ArcSight and QRadar start from the
\* three fixed names, Qualys from the empty list
AllowedFields(b) ==
    IF b.identifier \in {"as", "qradar"} THEN fixedFieldsList \cup allowedFieldsList
    ELSE allowedFieldsList

-----------------------------------------------------------------------------
(* QuoteCharMixin.cleanValue *)

\* reEscape.sub(escapeSubst, val): one backslash before every match, leftmost first
RECURSIVE EscapeFrom(_, _, _)
EscapeFrom(re, val, i) ==
    IF i > Len(val) THEN <<>>
    ELSE IF val[i] \in re.chars
         THEN <<"\\", val[i]>> \o EscapeFrom(re, val, i + 1)
    ELSE IF val[i] \in re.guarded /\ ~(i < Len(val) /\ val[i + 1] \in re.unless)
         THEN <<"\\", val[i]>> \o EscapeFrom(re, val, i + 1)
    ELSE IF i < Len(val) /\ <<val[i], val[i + 1]>> \in re.pairs
         THEN <<"\\", val[i], val[i + 1]>> \o EscapeFrom(re, val, i + 2)
    ELSE <<val[i]>> \o EscapeFrom(re, val, i + 1)

\* reClear.sub("", val)
ClearChars(re, val) == SelectSeq(val, LAMBDA c : c \notin re.chars)

\* a cleaning whose escape expression has no lookahead: a guarded character
\* is escaped whatever follows it
cleanValueNoLookahead(b, val) ==
    ClearChars(b.reClear,
               EscapeFrom([b.reEscape EXCEPT !.chars = @ \cup b.reEscape.guarded,
                                             !.guarded = {}], val, 1))

\* QuoteCharMixin.cleanValue
cleanValue(b, val) == ClearChars(b.reClear, EscapeFrom(b.reEscape, val, 1))

\* re.sub("\\*", ".*", val)
RECURSIVE StarToDotStar(_)
StarToDotStar(val) ==
    IF Len(val) = 0 THEN <<>>
    ELSE (IF Head(val) = "*" THEN <<".", "*">> ELSE <<Head(val)>>) \o StarToDotStar(Tail(val))

\* GrepBackend.cleanValue
Grep_cleanValue(b, val) == StarToDotStar(cleanValue(b, val))

\* the character class of both patterns of ArcSightBackend.CleanNode
CleanNodeChars ==
    {" ", "/", "\\", "@", "?", "#", "&", "_", "%", "*", "'", ",", "(", ")", "\""}

\* [x for x in replaced_str.split('*') if x]: the non-empty runs between
\* the characters of the class
RECURSIVE SplitRuns(_, _, _)
SplitRuns(val, i, run) ==
    IF i > Len(val) THEN (IF Len(run) = 0 THEN <<>> ELSE <<run>>)
    ELSE IF val[i] \in CleanNodeChars
         THEN (IF Len(run) = 0 THEN <<>> ELSE <<run>>) \o SplitRuns(val, i + 1, <<>>)
    ELSE SplitRuns(val, i + 1, Append(run, val[i]))

\* ArcSightBackend.CleanNode on a str: always a list of fragments
CleanNode(val) ==
    IF \E i \in 1..Len(val) : val[i] \in CleanNodeChars
    THEN SplitRuns(val, 1, <<>>)
    ELSE <<val>>

-----------------------------------------------------------------------------
(* Generation.  A generation step returns what it raised ("none" when it    *)
(* returned), the text it returned, and the instance's PartialMatchFlag     *)
(* after it, since QualysBackend.generateANDNode assigns the flag while     *)
(* the tree is walked.                                                      *)

Returns(text, flag) == [err |-> "none", text |-> text, flag |-> flag]
Raises(err, flag)   == [err |-> err, text |-> <<>>, flag |-> flag]

\* template % text, and template % (key, text)
Fill(template, text) == template.pre \o text \o template.post
Fill2(template, key, text) == template.pre \o key \o template.mid \o text \o template.post

\* what a step returns once its operand has been generated as r: the
\* operand's exception, or the operand's text between pre and post
OfText(r, pre, post) ==
    IF r.err # "none" THEN r ELSE Returns(pre \o r.text \o post, r.flag)

\* what a step returns once its children have been generated as r: the
\* first exception, or pre + sep.join(texts) + post
OfTexts(r, pre, sep, post) ==
    IF r.err # "none" THEN Raises(r.err, r.flag)
    ELSE Returns(pre \o Join(r.texts, sep) \o post, r.flag)

\* a dispatch that tests isinstance(node, (str, int)): a bool is an int
DispatchStepIsinstance(node) ==
    CASE node.type = "ConditionAND"          -> "generateANDNode"
      [] node.type = "ConditionOR"           -> "generateORNode"
      [] node.type = "ConditionNOT"          -> "generateNOTNode"
      [] node.type = "ConditionNULLValue"    -> "generateNULLValueNode"
      [] node.type = "ConditionNotNULLValue" -> "generateNotNULLValueNode"
      [] node.type = "NodeSubexpression"     -> "generateSubexpressionNode"
      [] node.type = "tuple"                 -> "generateMapItemNode"
      [] node.type \in {"str", "int", "bool"} -> "generateValueNode"
      [] node.type = "list"                  -> "generateListNode"
      [] OTHER                               -> "TypeError"

\* the if/elif chain of BaseBackend.generateNode: the step the node is
\* forwarded to, or "TypeError" when the chain falls through to the raise
DispatchStep(node) ==
    CASE node.type = "ConditionAND"          -> "generateANDNode"
      [] node.type = "ConditionOR"           -> "generateORNode"
      [] node.type = "ConditionNOT"          -> "generateNOTNode"
      [] node.type = "ConditionNULLValue"    -> "generateNULLValueNode"
      [] node.type = "ConditionNotNULLValue" -> "generateNotNULLValueNode"
      [] node.type = "NodeSubexpression"     -> "generateSubexpressionNode"
      [] node.type = "tuple"                 -> "generateMapItemNode"
      [] node.type \in {"str", "int"}        -> "generateValueNode"
      [] node.type = "list"                  -> "generateListNode"
      [] OTHER                               -> "TypeError"

RECURSIVE generateNode(_, _, _)
RECURSIVE GenerateAll(_, _, _)

\* the comprehension's result once the later children are generated as rest
Prepend(text, rest) ==
    IF rest.err # "none" THEN rest ELSE [rest EXCEPT !.texts = <<text>> \o rest.texts]

\* the comprehension from the second child on, the first being generated as first
GenerateRest(b, nodes, first) ==
    IF first.err # "none" THEN [err |-> first.err, texts |-> <<>>, flag |-> first.flag]
    ELSE Prepend(first.text, GenerateAll(b, nodes, first.flag))

\* [self.generateNode(val) for val in nodes]: stops at the first child that raises
GenerateAll(b, nodes, flag) ==
    IF Len(nodes) = 0 THEN [err |-> "none", texts |-> <<>>, flag |-> flag]
    ELSE GenerateRest(b, Tail(nodes), generateNode(b, Head(nodes), flag))

\* SingleTextQueryBackend.generateValueNode
STQ_generateValueNode(b, node, flag) ==
    Returns(Fill(b.valueExpression, cleanValue(b, pyStr(node))), flag)

\* ArcSightBackend.generateValueNode: "'AND' in node" raises TypeError on a
\* value that is not iterable; the value template is not applied
ArcSight_generateValueNode(b, node, flag) ==
    IF node.type = "int" THEN Returns(cleanValue(b, pyStr(node)), flag)
    ELSE IF node.type \in {"NoneType", "bool"} THEN Raises("TypeError", flag)
    ELSE IF node.type = "str" /\ HasSubstring(node.str, <<"A", "N", "D">>)
    THEN Returns(<<"(">> \o cleanValue(b, pyStr(node)) \o <<")">>, flag)
    ELSE Returns(cleanValue(b, pyStr(node)), flag)

\* node.replace("*", "%")
StarToPercent(val) == [i \in 1..Len(val) |-> IF val[i] = "*" THEN "%" ELSE val[i]]

SearchPayloadIlike == <<"s", "e", "a", "r", "c", "h", "_", "p", "a", "y", "l", "o", "a", "d", " ", "i", "l", "i", "k", "e">>

\* QRadarBackend.generateValueNode
QRadar_generateValueNode(b, node, flag) ==
    Returns(SearchPayloadIlike \o <<" ", "'">>
              \o cleanValue(b, IF node.type = "str" THEN StarToPercent(node.str) ELSE pyStr(node))
              \o <<"'">>, flag)

\* GrepBackend.generateValueNode
Grep_generateValueNode(b, node, flag) == Returns(Grep_cleanValue(b, pyStr(node)), flag)

\* FieldnameListBackend.generateValueNode: the empty list
FieldList_generateValueNode(b, node, flag) == Returns(<<>>, flag)

generateValueNode(b, node, flag) ==
    CASE b.identifier = "as"        -> ArcSight_generateValueNode(b, node, flag)
      [] b.identifier = "qradar"    -> QRadar_generateValueNode(b, node, flag)
      [] b.identifier = "grep"      -> Grep_generateValueNode(b, node, flag)
      [] b.identifier = "fieldlist" -> FieldList_generateValueNode(b, node, flag)
      [] OTHER                      -> STQ_generateValueNode(b, node, flag)

\* an AND step that wraps its result in parentheses
STQ_generateANDNodeParens(b, node, flag) ==
    OfTexts(GenerateAll(b, node.items, flag), <<"(">>, b.andToken, <<")">>)

\* SingleTextQueryBackend.generateANDNode
STQ_generateANDNode(b, node, flag) ==
    OfTexts(GenerateAll(b, node.items, flag), <<>>, b.andToken, <<>>)

\* SingleTextQueryBackend.generateORNode
STQ_generateORNode(b, node, flag) ==
    OfTexts(GenerateAll(b, node.items, flag), <<>>, b.orToken, <<>>)

\* the test of both Qualys loops: type(val) == tuple and not(val[0] in self.allowedFieldsList)
Disallowed(val) == val.type = "tuple" /\ val.key \notin allowedFieldsList

Kept(items) == SelectSeq(items, LAMBDA val : ~Disallowed(val))

AnyDisallowed(items) == \E i \in 1..Len(items) : Disallowed(items[i])

\* an OR filter that sets the flag, as the AND filter does
Qualys_generateORNodeFlags(b, node, flag) ==
    OfTexts(GenerateAll(b, Kept(node.items),
                        IF AnyDisallowed(node.items) THEN "True" ELSE flag),
            <<>>, b.orToken, <<>>)

\* QualysBackend.generateORNode
Qualys_generateORNode(b, node, flag) ==
    OfTexts(GenerateAll(b, Kept(node.items), flag), <<>>, b.orToken, <<>>)

\* QualysBackend.generateANDNode
Qualys_generateANDNode(b, node, flag) ==
    OfTexts(GenerateAll(b, Kept(node.items),
                        IF AnyDisallowed(node.items) THEN "True" ELSE flag),
            <<>>, b.andToken, <<>>)

\* QRadarBackend.generateANDNode
QRadar_generateANDNode(b, node, flag) ==
    OfTexts(GenerateAll(b, node.items, flag), <<"(">>, b.andToken, <<")">>)

\* QRadarBackend.generateORNode
QRadar_generateORNode(b, node, flag) ==
    OfTexts(GenerateAll(b, node.items, flag), <<"(">>, b.orToken, <<")">>)

\* self.andToken.join([self.valueExpression % val for val in value])
QuotedFragments(b, fragments) ==
    Join([i \in 1..Len(fragments) |-> Fill(b.valueExpression, fragments[i])], b.andToken)

\* ArcSightBackend.generateORNode: an OR of bare strings is rebuilt from the
\* cleaned fragments of each; anything else (a plain list included) is
\* rendered child by child; both in parentheses
ArcSight_generateORNode(b, node, flag) ==
    LET new_value ==
            IF node.type = "ConditionOR"
               /\ \A i \in 1..Len(node.items) : node.items[i].type = "str"
            THEN [i \in 1..Len(node.items) |->
                     StrNode(QuotedFragments(b, CleanNode(node.items[i].str)))]
            ELSE node.items
    IN  OfTexts(GenerateAll(b, new_value, flag), <<"(">>, b.orToken, <<")">>)

\* "".join(["(?=.*%s)" % self.generateNode(val) for val in node])
GrepLookaheads(texts) ==
    Join([i \in 1..Len(texts) |-> <<"(", "?", "=", ".", "*">> \o texts[i] \o <<")">>], <<>>)

\* GrepBackend.generateANDNode, its children being generated as r
Grep_andOf(r) ==
    IF r.err # "none" THEN Raises(r.err, r.flag) ELSE Returns(GrepLookaheads(r.texts), r.flag)

Grep_generateANDNode(b, node, flag) == Grep_andOf(GenerateAll(b, node.items, flag))

\* "(?:%s)" % "|".join([".*" + self.generateNode(val) for val in node])
GrepAlternatives(texts) ==
    <<"(", "?", ":">> \o Join([i \in 1..Len(texts) |-> <<".", "*">> \o texts[i]], <<"|">>) \o <<")">>

\* GrepBackend.generateORNode, its children being generated as r
Grep_orOf(r) ==
    IF r.err # "none" THEN Raises(r.err, r.flag) ELSE Returns(GrepAlternatives(r.texts), r.flag)

Grep_generateORNode(b, node, flag) == Grep_orOf(GenerateAll(b, node.items, flag))

\* FieldnameListBackend.generateANDNode (generateORNode calls it): the list
\* of the children's lists, kept here in the flattened form generateQuery
\* reduces it to
FieldList_generateANDNode(b, node, flag) ==
    OfTexts(GenerateAll(b, node.items, flag), <<>>, <<>>, <<>>)

generateANDNode(b, node, flag) ==
    CASE b.identifier = "qualys"    -> Qualys_generateANDNode(b, node, flag)
      [] b.identifier = "qradar"    -> QRadar_generateANDNode(b, node, flag)
      [] b.identifier = "grep"      -> Grep_generateANDNode(b, node, flag)
      [] b.identifier = "fieldlist" -> FieldList_generateANDNode(b, node, flag)
      [] OTHER                      -> STQ_generateANDNode(b, node, flag)

generateORNode(b, node, flag) ==
    CASE b.identifier = "qualys"    -> Qualys_generateORNode(b, node, flag)
      [] b.identifier = "qradar"    -> QRadar_generateORNode(b, node, flag)
      [] b.identifier = "as"        -> ArcSight_generateORNode(b, node, flag)
      [] b.identifier = "grep"      -> Grep_generateORNode(b, node, flag)
      [] b.identifier = "fieldlist" -> FieldList_generateANDNode(b, node, flag)
      [] OTHER                      -> STQ_generateORNode(b, node, flag)

\* the NOT token or template of the class around the operand's text
\* (generateNOTNode of SingleTextQueryBackend, GrepBackend, FieldnameListBackend)
NotText(b, text) ==
    CASE b.identifier = "grep"      -> <<"(", "?", "!", ".", "*">> \o text \o <<")">>
      [] b.identifier = "fieldlist" -> text
      [] OTHER                      -> b.notToken \o text

NotOf(b, r) == IF r.err # "none" THEN r ELSE Returns(NotText(b, r.text), r.flag)

generateNOTNode(b, node, flag) == NotOf(b, generateNode(b, node.item, flag))

\* the subexpression template of the class around the inner text
\* (generateSubexpressionNode of the same three classes)
SubText(b, text) ==
    CASE b.identifier = "grep"      -> <<"(", "?", ":", ".", "*">> \o text \o <<")">>
      [] b.identifier = "fieldlist" -> text
      [] OTHER                      -> Fill(b.subExpression, text)

SubOf(b, r) == IF r.err # "none" THEN r ELSE Returns(SubText(b, r.text), r.flag)

generateSubexpressionNode(b, node, flag) == SubOf(b, generateNode(b, node.inner, flag))

\* what generateListNode builds from the items' renderings: the list
\* template (SingleTextQueryBackend, QRadarBackend), the OR rendering
\* (GrepBackend), the list itself (FieldnameListBackend)
ListText(b, texts) ==
    CASE b.identifier = "grep"      -> GrepAlternatives(texts)
      [] b.identifier = "fieldlist" -> Join(texts, <<>>)
      [] OTHER                      -> Fill(b.listExpression, Join(texts, b.listSeparator))

\* generateListNode: every class checks the items' types first
ListOf(b, r) ==
    IF r.err # "none" THEN Raises(r.err, r.flag) ELSE Returns(ListText(b, r.texts), r.flag)

generateListNode(b, node, flag) ==
    IF ~AllScalars(node.items) THEN Raises("TypeError", flag)
    ELSE ListOf(b, GenerateAll(b, node.items, flag))

\* the first branch of the generateMapItemNode methods
PlainMapValue(b, value) ==
    \/ b.mapListsSpecialHandling = FALSE /\ value.type \in {"str", "int", "list"}
    \/ b.mapListsSpecialHandling = TRUE /\ value.type \in {"str", "int"}

\* SingleTextQueryBackend.generateMapItemListNode
STQ_generateMapItemListNode(b, key, value, flag) ==
    OfText(generateNode(b, value, flag),
           b.mapListValueExpression.pre \o key \o b.mapListValueExpression.mid,
           b.mapListValueExpression.post)

\* SingleTextQueryBackend.generateMapItemNode
STQ_generateMapItemNode(b, node, flag) ==
    IF PlainMapValue(b, node.value)
    THEN OfText(generateNode(b, node.value, flag),
                b.mapExpression.pre \o node.key \o b.mapExpression.mid, b.mapExpression.post)
    ELSE IF node.value.type = "list"
    THEN STQ_generateMapItemListNode(b, node.key, node.value, flag)
    ELSE Raises("TypeError", flag)

\* QualysBackend.generateMapItemListNode: every item goes through
\* generateValueNode, whatever its type
Qualys_generateMapItemListNode(b, key, value, flag) ==
    LET itemslist ==
            [i \in 1..Len(value.items) |->
                LET v == generateValueNode(b, value.items[i], flag).text
                IN  IF key \in allowedFieldsList
                    THEN key \o <<":", BQ>> \o v \o <<BQ>>
                    ELSE v]
    IN  Returns(<<"(">> \o Join(itemslist, <<" ", "o", "r", " ">>) \o <<")">>, flag)

\* QualysBackend.generateMapItemNode
Qualys_generateMapItemNode(b, node, flag) ==
    IF PlainMapValue(b, node.value)
    THEN IF node.key \in allowedFieldsList
         THEN OfText(generateNode(b, node.value, flag),
                     b.mapExpression.pre \o node.key \o b.mapExpression.mid,
                     b.mapExpression.post)
         ELSE generateNode(b, node.value, flag)
    ELSE IF node.value.type = "list"
    THEN Qualys_generateMapItemListNode(b, node.key, node.value, flag)
    ELSE Raises("TypeError", flag)

\* SplunkBackend.generateMapItemListNode: every item goes through
\* generateValueNode, whatever its type
Splunk_generateMapItemListNode(b, key, value, flag) ==
    LET itemslist ==
            [i \in 1..Len(value.items) |->
                key \o <<"=">> \o STQ_generateValueNode(b, value.items[i], flag).text]
    IN  Returns(<<"(">> \o Join(itemslist, <<" ", "O", "R", " ">>) \o <<")">>, flag)

\* SplunkBackend inherits generateMapItemNode and overrides the list step
Splunk_generateMapItemNode(b, node, flag) ==
    IF PlainMapValue(b, node.value)
    THEN OfText(generateNode(b, node.value, flag),
                b.mapExpression.pre \o node.key \o b.mapExpression.mid, b.mapExpression.post)
    ELSE IF node.value.type = "list"
    THEN Splunk_generateMapItemListNode(b, node.key, node.value, flag)
    ELSE Raises("TypeError", flag)

\* ArcSightBackend.generateSCValueNodeLogsource
ArcSight_generateSCValueNodeLogsource(b, value) ==
    Fill(b.valueExpression, cleanValue(b, pyStr(value)))

\* ArcSightBackend.generateMapItemListNode: generateValueNode on every item,
\* which raises on None and on a boolean
ArcSight_generateMapItemListNode(b, key, value, flag) ==
    LET rendered == [i \in 1..Len(value.items) |->
                        ArcSight_generateValueNode(b, value.items[i], flag)]
        itemslist == [i \in 1..Len(value.items) |->
                        IF key \in AllowedFields(b)
                        THEN key \o <<" ", "=", " ">> \o rendered[i].text
                        ELSE rendered[i].text]
    IN  IF \E i \in 1..Len(value.items) : rendered[i].err # "none"
        THEN Raises("TypeError", flag)
        ELSE Returns(Join(itemslist, <<" ", "O", "R", " ">>), flag)

\* the branch of ArcSightBackend.generateMapItemNode for a field outside the
\* allow-list.  CleanNode searches the value with a pattern, which raises
\* TypeError on anything but a str; generateANDNode and generateORNode are
\* called on plain lists of the rebuilt strings.
ArcSight_freeText(b, value, flag) ==
    IF PlainMapValue(b, value)
    THEN IF value.type = "str"
         THEN OfText(STQ_generateANDNode(b,
                         ListNode(<<StrNode(QuotedFragments(b, CleanNode(value.str)))>>), flag),
                     <<"(">>, <<")">>)
         ELSE ArcSight_generateValueNode(b, value, flag)
    ELSE IF value.type = "list"
    THEN IF \E i \in 1..Len(value.items) : value.items[i].type # "str"
         THEN Raises("TypeError", flag)
         ELSE ArcSight_generateORNode(b,
                  ListNode([i \in 1..Len(value.items) |->
                               StrNode(QuotedFragments(b, CleanNode(value.items[i].str)))]),
                  flag)
    ELSE Raises("TypeError", flag)

\* ArcSightBackend.generateMapItemNode
ArcSight_generateMapItemNode(b, node, flag) ==
    IF node.key \in AllowedFields(b)
    THEN IF PlainMapValue(b, node.value)
         THEN Returns(Fill2(b.mapExpression, node.key,
                            ArcSight_generateSCValueNodeLogsource(b, node.value)), flag)
         ELSE IF node.value.type = "list"
         THEN ArcSight_generateMapItemListNode(b, node.key, node.value, flag)
         ELSE Raises("TypeError", flag)
    ELSE ArcSight_freeText(b, node.value, flag)

\* self.const_start after generateSCValueNodeLogsource has run (allKeys_aFL
\* is always True).  For the QRadar instance the attribute a generation step
\* assigns, and so the one threaded through the steps, is const_start.
ConstStartStar == <<"*">>

\* QRadarBackend.generateSCValueNodeLogsource: the text it returns
QRadar_generateSCValueNodeLogsource(b, value) == cleanValue(b, pyStr(value))

\* QRadarBackend.generateMapItemListNode
QRadar_generateMapItemListNode(b, key, value, flag) ==
    LET itemslist ==
            [i \in 1..Len(value.items) |->
                IF key \in AllowedFields(b)
                THEN Fill(b.keyExpression, key) \o <<" ", "=", " ">>
                       \o Fill(b.valueExpression,
                               QRadar_generateSCValueNodeLogsource(b, value.items[i]))
                ELSE QRadar_generateValueNode(b, value.items[i], flag).text]
    IN  Returns(<<"(">> \o Join(itemslist, <<" ", "o", "r", " ">>) \o <<")">>,
                IF key \in AllowedFields(b) /\ Len(value.items) > 0
                THEN ConstStartStar ELSE flag)

\* QRadarBackend.generateMapItemNode.  For a field outside the allow-list a
\* str or int value goes to generateValueNode (new_value always has one
\* element) and a list value to generateORNode, item by item.
QRadar_generateMapItemNode(b, node, flag) ==
    IF node.key \in AllowedFields(b)
    THEN IF node.key = F_deviceProduct
         THEN Returns(QRadar_generateSCValueNodeLogsource(b, node.value), ConstStartStar)
         ELSE IF PlainMapValue(b, node.value)
         THEN Returns(Fill2(b.mapExpression, Fill(b.keyExpression, node.key),
                            Fill(b.valueExpression,
                                 QRadar_generateSCValueNodeLogsource(b, node.value))),
                      ConstStartStar)
         ELSE IF node.value.type = "list"
         THEN QRadar_generateMapItemListNode(b, node.key, node.value, flag)
         ELSE Raises("TypeError", flag)
    ELSE IF PlainMapValue(b, node.value)
         THEN QRadar_generateValueNode(b, node.value, flag)
         ELSE IF node.value.type = "list"
         THEN QRadar_generateORNode(b, ListNode(node.value.items), flag)
         ELSE Raises("TypeError", flag)

\* GrepBackend.generateMapItemNode
Grep_generateMapItemNode(b, node, flag) == generateNode(b, node.value, flag)

\* FieldnameListBackend.generateMapItemNode: the key, whatever a list value holds
FieldList_generateMapItemNode(b, node, flag) ==
    IF node.value.type \notin {"str", "int", "list"} THEN Raises("TypeError", flag)
    ELSE Returns(<<node.key>>, flag)

generateMapItemNode(b, node, flag) ==
    CASE b.identifier = "qualys"    -> Qualys_generateMapItemNode(b, node, flag)
      [] b.identifier = "splunk"    -> Splunk_generateMapItemNode(b, node, flag)
      [] b.identifier = "as"        -> ArcSight_generateMapItemNode(b, node, flag)
      [] b.identifier = "qradar"    -> QRadar_generateMapItemNode(b, node, flag)
      [] b.identifier = "grep"      -> Grep_generateMapItemNode(b, node, flag)
      [] b.identifier = "fieldlist" -> FieldList_generateMapItemNode(b, node, flag)
      [] OTHER                      -> STQ_generateMapItemNode(b, node, flag)

\* generateNULLValueNode: SingleTextQueryBackend's; GrepBackend and
\* FieldnameListBackend are left with BaseBackend's, which raises
generateNULLValueNode(b, node, flag) ==
    IF b.identifier \in {"grep", "fieldlist"} THEN Raises("NotImplementedError", flag)
    ELSE Returns(Fill(b.nullExpression, node.field), flag)

\* generateNotNULLValueNode, likewise
generateNotNULLValueNode(b, node, flag) ==
    IF b.identifier \in {"grep", "fieldlist"} THEN Raises("NotImplementedError", flag)
    ELSE Returns(Fill(b.notNullExpression, node.field), flag)

\* BaseBackend.generateNode
generateNode(b, node, flag) ==
    LET step == DispatchStep(node)
    IN  CASE step = "generateANDNode"           -> generateANDNode(b, node, flag)
          [] step = "generateORNode"            -> generateORNode(b, node, flag)
          [] step = "generateNOTNode"           -> generateNOTNode(b, node, flag)
          [] step = "generateNULLValueNode"     -> generateNULLValueNode(b, node, flag)
          [] step = "generateNotNULLValueNode"  -> generateNotNULLValueNode(b, node, flag)
          [] step = "generateSubexpressionNode" -> generateSubexpressionNode(b, node, flag)
          [] step = "generateMapItemNode"       -> generateMapItemNode(b, node, flag)
          [] step = "generateValueNode"         -> generateValueNode(b, node, flag)
          [] step = "generateListNode"          -> generateListNode(b, node, flag)
          [] OTHER                              -> Raises("TypeError", flag)

\* An aggregation (SigmaAggregationParser): aggfunc is the function's tag,
\* aggfunc_notrans its text; an empty aggfield or groupfield is None; cond_op
\* "None" is an aggregation without a comparison, whose condition is None too
\* (the parser sets the two together).
\* parsedAgg of a condition without an aggregation (None)
NoAgg == [aggfunc |-> "None", aggfunc_notrans |-> <<>>, aggfield |-> <<>>,
          groupfield |-> <<>>, cond_op |-> "None", condition |-> 0]

\* "%s" % an optional text
OptText(text) == IF Len(text) = 0 THEN PyNone ELSE text

\* "%s" % agg.cond_op
CondOpText(agg) ==
    CASE agg.cond_op = ">"  -> <<">">>
      [] agg.cond_op = ">=" -> <<">", "=">>
      [] agg.cond_op = "<"  -> <<"<">>
      [] agg.cond_op = "<=" -> <<"<", "=">>
      [] OTHER              -> PyNone

\* "%s" % agg.condition
ConditionText(agg) == IF agg.cond_op = "None" THEN PyNone ELSE Decimal(agg.condition)

\* the text both generateAggregation overrides build after the command word
AggregationText(command, agg) ==
    <<" ", "|", " ">> \o command \o <<" ">> \o agg.aggfunc_notrans \o <<"(">>
      \o OptText(agg.aggfield) \o <<")", " ", "a", "s", " ", "v", "a", "l">>
      \o (IF Len(agg.groupfield) = 0 THEN <<>>
          ELSE <<" ", "b", "y", " ">> \o agg.groupfield)
      \o <<" ", "|", " ", "s", "e", "a", "r", "c", "h", " ", "v", "a", "l", " ">> \o CondOpText(agg) \o <<" ">> \o ConditionText(agg)

\* SplunkBackend.generateAggregation
Splunk_generateAggregation(agg) ==
    IF agg.aggfunc = "near" THEN [err |-> "NotImplementedError", text |-> <<>>]
    ELSE [err |-> "none", text |-> AggregationText(<<"s", "t", "a", "t", "s">>, agg)]

\* LogPointBackend.generateAggregation
LogPoint_generateAggregation(agg) ==
    IF agg.aggfunc = "near" THEN [err |-> "NotImplementedError", text |-> <<>>]
    ELSE [err |-> "none", text |-> AggregationText(<<"c", "h", "a", "r", "t">>, agg)]

\* generateAggregation of the class: BaseBackend's raises
generateAggregation(b, agg) ==
    CASE b.identifier = "splunk"   -> Splunk_generateAggregation(agg)
      [] b.identifier = "logpoint" -> LogPoint_generateAggregation(agg)
      [] OTHER                     -> [err |-> "NotImplementedError", text |-> <<>>]

\* code points of the characters field names are made of, in ascending order
CodePoints ==
    <<"A", "B", "C", "D", "E", "F", "G", "H", "I", "J", "K", "L", "M", "N", "O",
      "P", "Q", "R", "S", "T", "U", "V", "W", "X", "Y", "Z", "_",
      "a", "b", "c", "d", "e", "f", "g", "h", "i", "j", "k", "l", "m", "n", "o",
      "p", "q", "r", "s", "t", "u", "v", "w", "x", "y", "z">>

CodePoint(c) == CHOOSE i \in 1..Len(CodePoints) : CodePoints[i] = c

\* s < t as Python compares two str
RECURSIVE StrLess(_, _)
StrLess(s, t) ==
    IF Len(t) = 0 THEN FALSE
    ELSE IF Len(s) = 0 THEN TRUE
    ELSE IF Head(s) = Head(t) THEN StrLess(Tail(s), Tail(t))
    ELSE CodePoint(Head(s)) < CodePoint(Head(t))

\* sorted(names) of a set of str
RECURSIVE Sorted(_)
Sorted(names) ==
    IF names = {} THEN <<>>
    ELSE LET least == CHOOSE n \in names : \A m \in names \ {n} : StrLess(n, m)
         IN  <<least>> \o Sorted(names \ {least})

NL == "\n"

\* FieldnameListBackend.generateQuery on the flattened list of field names
FieldList_queryText(names) ==
    Join(Sorted({names[i] : i \in 1..Len(names)}), <<NL>>)

\* result += self.generateAggregation(parsed.parsedAgg)
WithAggregation(result, agg) ==
    IF agg.err # "none" THEN Raises(agg.err, result.flag)
    ELSE Returns(result.text \o agg.text, result.flag)

\* generateQuery of the class, the search part being generated as result:
\* BaseBackend's appends the aggregation when there is one, GrepBackend's
\* and FieldnameListBackend's do not look at it
QueryOf(b, parsed, result) ==
    IF result.err # "none" THEN result
    ELSE CASE b.identifier = "grep" ->
                Returns(<<"g", "r", "e", "p", " ", "-", "P", " ", "'", "^">> \o result.text \o <<"'">>, result.flag)
           [] b.identifier = "fieldlist" ->
                Returns(FieldList_queryText(result.text), result.flag)
           [] OTHER ->
                IF parsed.parsedAgg # NoAgg
                THEN WithAggregation(result, generateAggregation(b, parsed.parsedAgg))
                ELSE result

generateQuery(b, parsed, flag) ==
    QueryOf(b, parsed, generateNode(b, parsed.parsedSearch, flag))

-----------------------------------------------------------------------------
(* Multi-rule backends: KibanaBackend and XPackWatcherBackend *)

\* the columns loop of KibanaBackend.generate over the rule's resolved fields
RECURSIVE KibanaColumns(_, _)
KibanaColumns(fields, columns) ==
    IF Len(fields) = 0 THEN [err |-> "none", columns |-> columns]
    ELSE LET mapped == Head(fields)
         IN  IF mapped.type \in {"str", "list"}
             THEN KibanaColumns(Tail(fields), columns \o mapped.names)
             ELSE [err |-> "TypeError", columns |-> columns]

\* title = self.options["prefix"] + title, or the title when the key is missing
KibanaTitle(opts, title) ==
    IF "prefix" \in DOMAIN opts THEN opts.prefix \o title ELSE title

\* the saved search appended for one condition (its constant skeleton left out)
KibanaEntry(final_rulename, title, columns, index, result) ==
    [_id |-> final_rulename, _type |-> "search", title |-> title,
     columns |-> columns, index |-> index, query |-> result]

\* the condition loop of KibanaBackend.generate, from condition i on.  The
\* inner loop over the indices raises in its first pass when there are
\* several, and runs once otherwise (indices is never empty here)
RECURSIVE KibanaLoop(_, _, _, _, _, _, _, _)
\* a loop body that takes the first of several indices instead of raising
KibanaIndicesFirst(b, opts, rule, rulename, columns, indices, i, conf, result) ==
    IF result.err # "none"
    THEN [err |-> result.err, kibanaconf |-> conf]
    ELSE KibanaLoop(b, opts, rule, rulename, columns, indices, i + 1,
                    Append(conf,
                           KibanaEntry(rulename, KibanaTitle(opts, rule.title),
                                       columns, indices[1], result.text)))

\* the body of the loop for condition i, its search part being generated as result
KibanaIndices(b, opts, rule, rulename, columns, indices, i, conf, result) ==
    IF result.err # "none"
    THEN [err |-> result.err, kibanaconf |-> conf]
    ELSE IF Len(indices) > 1
    THEN [err |-> "NotSupportedError", kibanaconf |-> conf]
    ELSE KibanaLoop(b, opts, rule, rulename, columns, indices, i + 1,
                    Append(conf,
                           KibanaEntry(rulename, KibanaTitle(opts, rule.title),
                                       columns, indices[1], result.text)))

KibanaLoop(b, opts, rule, rulename, columns, indices, i, conf) ==
    IF i > Len(rule.condparsed) THEN [err |-> "none", kibanaconf |-> conf]
    ELSE KibanaIndices(b, opts, rule, rulename, columns, indices, i, conf,
                       generateNode(b, rule.condparsed[i].parsedSearch, "False"))

\* KibanaBackend.generate: what it raised, the name it took, and the
\* registry and the accumulator after the call
Kibana_returned(named, looped) ==
    [err |-> looped.err, name |-> named.name,
     rulenames |-> named.rulenames, kibanaconf |-> looped.kibanaconf]

Kibana_generate(b, opts, rule, names, conf) ==
    LET named   == getRuleName(rule.title, names)
        cols    == KibanaColumns(rule.fields, <<>>)
        indices == IF Len(rule.index) = 0 THEN <<"*">> ELSE rule.index
    IN  IF cols.err # "none"
        THEN [err |-> cols.err, name |-> named.name,
              rulenames |-> named.rulenames, kibanaconf |-> conf]
        ELSE Kibana_returned(named,
                 KibanaLoop(b, opts, rule, named.name, cols.columns, indices, 1, conf))

\* a store that appends instead of assigning by key
DictSetAppends(d, key, value) == Append(d, [key |-> key, value |-> value])

\* dict[key] = value: an existing key keeps its place, a new key goes last
DictSet(d, key, value) ==
    IF \E i \in 1..Len(d) : d[i].key = key
    THEN [i \in 1..Len(d) |-> IF d[i].key = key THEN [key |-> key, value |-> value] ELSE d[i]]
    ELSE Append(d, [key |-> key, value |-> value])

\* the try block of XPackWatcherBackend.generate: parsedAgg None raises
\* AttributeError on .cond_op, which gives the default
AlertCondition(parsedAgg) ==
    IF parsedAgg = NoAgg THEN [op |-> "not_eq", value |-> 0]
    ELSE CASE parsedAgg.cond_op = ">"  -> [op |-> "gt",  value |-> parsedAgg.condition]
           [] parsedAgg.cond_op = ">=" -> [op |-> "gte", value |-> parsedAgg.condition]
           [] parsedAgg.cond_op = "<"  -> [op |-> "lt",  value |-> parsedAgg.condition]
           [] parsedAgg.cond_op = "<=" -> [op |-> "lte", value |-> parsedAgg.condition]
           [] OTHER                    -> [op |-> "not_eq", value |-> 0]

\* the watch stored for one condition (its constant skeleton left out)
WatcherEntry(rule, result, parsedAgg) ==
    [interval |-> rule.timeframe, query |-> result, indices |-> rule.index,
     condition |-> AlertCondition(parsedAgg)]

\* the condition loop of XPackWatcherBackend.generate
RECURSIVE XPackLoop(_, _, _, _, _)
\* the body of the loop for condition i, its search part being generated as result
XPackStore(b, rule, rulename, i, alerts, result) ==
    IF result.err # "none"
    THEN [err |-> result.err, watcher_alert |-> alerts]
    ELSE XPackLoop(b, rule, rulename, i + 1,
                   DictSet(alerts, rulename,
                           WatcherEntry(rule, result.text, rule.condparsed[i].parsedAgg)))

XPackLoop(b, rule, rulename, i, alerts) ==
    IF i > Len(rule.condparsed) THEN [err |-> "none", watcher_alert |-> alerts]
    ELSE XPackStore(b, rule, rulename, i, alerts,
                    generateNode(b, rule.condparsed[i].parsedSearch, "False"))

\* XPackWatcherBackend.generate
XPack_returned(named, looped) ==
    [err |-> looped.err, name |-> named.name,
     rulenames |-> named.rulenames, watcher_alert |-> looped.watcher_alert]

XPack_generate(b, rule, names, alerts) ==
    XPack_returned(getRuleName(rule.title, names),
                   XPackLoop(b, rule, getRuleName(rule.title, names).name, 1, alerts))

\* XPackWatcherBackend.__init__: self.output_type
OutputType(opts) == IF "output" \in DOMAIN opts THEN opts.output ELSE "curl"

\* a finalize that prints all watches as one unit
XPack_finalizeOnce(opts, alerts) ==
    IF Len(alerts) > 0 /\ OutputType(opts) \notin {"plain", "curl"}
    THEN [err |-> "NotImplementedError", printed |-> <<>>]
    ELSE [err |-> "none", printed |-> <<[kind |-> OutputType(opts), doc |-> alerts]>>]

\* XPackWatcherBackend.finalize: one print per stored watch; an output type
\* other than plain and curl raises at the first watch
XPack_finalize(opts, alerts) ==
    IF Len(alerts) > 0 /\ OutputType(opts) \notin {"plain", "curl"}
    THEN [err |-> "NotImplementedError", printed |-> <<>>]
    ELSE [err |-> "none",
          printed |-> [i \in 1..Len(alerts) |->
                          [kind |-> OutputType(opts), doc |-> <<alerts[i]>>]]]

\* KibanaBackend.finalize: one print of the whole list
Kibana_finalize(conf) ==
    [err |-> "none", printed |-> <<[kind |-> "json", doc |-> conf]>>]

-----------------------------------------------------------------------------
(* Rules fed to the multi-rule backends *)

Title_a    == <<"a">>
Title_a_2  == <<"a", " ", "2">>
Title_a_d2 == <<"a", "-", "2">>

Titles == {Title_a, Title_a_2, Title_a_d2}

Cond(node) == [parsedSearch |-> node, parsedAgg |-> NoAgg]

\* usr:"a"
Search_user == MapItem(F_user, StrNode(<<"a">>))
\* id:"4" AND NOT cmd:"a\:b"
Search_and  == AndNode(<<MapItem(F_id, IntNode(4)),
                         NotNode(MapItem(F_cmd, StrNode(<<"a", ":", "b">>)))>>)
\* a map item whose value is None
Search_malformed == MapItem(F_user, NoneNode)

Rule(title, conds, index, fields) ==
    [title |-> title, condparsed |-> conds, index |-> index, fields |-> fields,
     timeframe |-> "30m"]

MultiRules ==
    UNION { { Rule(t, <<Cond(Search_user)>>, <<>>, <<>>),
              Rule(t, <<Cond(Search_user), Cond(Search_and)>>, <<"idx1">>,
                   << [type |-> "str", names |-> <<"c1">>],
                      [type |-> "list", names |-> <<"c2", "c3">>] >>),
              Rule(t, <<Cond(Search_and), Cond(Search_malformed)>>, <<>>, <<>>) }
            : t \in Titles }
    \cup { Rule(t, <<Cond(Search_user)>>, <<"idx1", "idx2">>, <<>>)
            : t \in {Title_a, Title_a_2} }
    \cup { Rule(Title_a, <<Cond(Search_and)>>, <<"idx1">>,
                << [type |-> "NoneType", names |-> <<>>] >>) }

NoRule == Rule(<<>>, <<>>, <<>>, <<>>)

MultiOptions ==
    [kibana |-> { <<>>, [prefix |-> <<"S", ":">>] },
     xpack  |-> { <<>>, [output |-> "plain"], [output |-> "json"] }]

-----------------------------------------------------------------------------
(* The multi-rule instance: construction, generate, finalize *)

Generated == SelectSeq(log, LAMBDA c : c.op = "generate")

InitMulti ==
    /\ backend \in {"kibana", "xpack-watcher"}
    /\ options \in (IF backend = "kibana" THEN MultiOptions.kibana ELSE MultiOptions.xpack)
    /\ rulenames = {}
    /\ kibanaconf = <<>>
    /\ watcher_alert = <<>>
    /\ PartialMatchFlag = "False"
    /\ output = <<>>
    /\ stdout = <<>>
    /\ finalized = FALSE
    /\ log = <<>>

\* the instance after a generate call that ended as r
KibanaGenerated(rule, r) ==
    /\ rulenames' = r.rulenames
    /\ kibanaconf' = r.kibanaconf
    /\ log' = Append(log, [op |-> "generate", rule |-> rule,
                           raised |-> r.err, name |-> r.name])

XPackGenerated(rule, r) ==
    /\ rulenames' = r.rulenames
    /\ watcher_alert' = r.watcher_alert
    /\ log' = Append(log, [op |-> "generate", rule |-> rule,
                           raised |-> r.err, name |-> r.name])

\* finalize is called after the last generate (BaseBackend.finalize docstring)
KibanaGenerate(rule) ==
    /\ backend = "kibana"
    /\ ~finalized
    /\ Len(Generated) < MaxRules
    /\ KibanaGenerated(rule, Kibana_generate(KibanaBackend, options, rule, rulenames, kibanaconf))
    /\ UNCHANGED <<backend, options, watcher_alert, PartialMatchFlag, output, stdout, finalized>>

XPackGenerate(rule) ==
    /\ backend = "xpack-watcher"
    /\ ~finalized
    /\ Len(Generated) < MaxRules
    /\ XPackGenerated(rule, XPack_generate(XPackWatcherBackend, rule, rulenames, watcher_alert))
    /\ UNCHANGED <<backend, options, kibanaconf, PartialMatchFlag, output, stdout, finalized>>

KibanaFinalize ==
    /\ backend = "kibana"
    /\ ~finalized
    /\ LET r == Kibana_finalize(kibanaconf)
       IN  /\ output' = output \o r.printed
           /\ log' = Append(log, [op |-> "finalize", rule |-> NoRule,
                                  raised |-> r.err, name |-> <<>>])
    /\ finalized' = TRUE
    /\ UNCHANGED <<backend, options, rulenames, kibanaconf, watcher_alert,
                   PartialMatchFlag, stdout>>

XPackFinalize ==
    /\ backend = "xpack-watcher"
    /\ ~finalized
    /\ LET r == XPack_finalize(options, watcher_alert)
       IN  /\ output' = output \o r.printed
           /\ log' = Append(log, [op |-> "finalize", rule |-> NoRule,
                                  raised |-> r.err, name |-> <<>>])
    /\ finalized' = TRUE
    /\ UNCHANGED <<backend, options, rulenames, kibanaconf, watcher_alert,
                   PartialMatchFlag, stdout>>

NextMulti ==
    \/ \E rule \in MultiRules : KibanaGenerate(rule)
    \/ \E rule \in MultiRules : XPackGenerate(rule)
    \/ KibanaFinalize
    \/ XPackFinalize

SpecMulti == InitMulti /\ [][NextMulti]_vars

-----------------------------------------------------------------------------
(* Properties of the multi-rule backends, checked under SpecMulti *)

Last(seq) == seq[Len(seq)]

AllSucceeded == \A i \in 1..Len(Generated) : Generated[i].raised = "none"

RECURSIVE ConditionCount(_)
ConditionCount(calls) ==
    IF Len(calls) = 0 THEN 0
    ELSE Len(Head(calls).rule.condparsed) + ConditionCount(Tail(calls))

\* C1: the names getRuleName has returned on one instance are pairwise
\* distinct, and the registry holds exactly the names returned so far (so
\* each name was absent before its call and is present after it).
Thm_C1_NamesDistinct ==
    /\ \A i, j \in 1..Len(Generated) : i < j => Generated[i].name # Generated[j].name
    /\ rulenames = {Generated[i].name : i \in 1..Len(Generated)}

\* titles "a", "a", "a 2": the third candidate a-2 is taken by the second rule
Wit_C1_SuffixCollision ==
    /\ Len(Generated) = 3
    /\ Generated[1].rule.title = Title_a /\ Generated[1].name = <<"a">>
    /\ Generated[2].rule.title = Title_a /\ Generated[2].name = <<"a", "-", "2">>
    /\ Generated[3].rule.title = Title_a_2
    /\ Generated[3].name = <<"a", "-", "2", "-", "2">>

\* C2: N rules with the identical title T get T' (spaces replaced by '-'),
\* T'-2, ..., T'-N in arrival order, and the registry is exactly these names;
\* three rules titled "a 2" get a-2, a-2-2, a-2-3.
Thm_C2_SameTitleSuffixes ==
    LET g == Generated
        same == Len(g) > 0 /\ \A i \in 1..Len(g) : g[i].rule.title = g[1].rule.title
        base == [i \in 1..Len(g[1].rule.title) |->
                    IF g[1].rule.title[i] = " " THEN "-" ELSE g[1].rule.title[i]]
        expected(k) == IF k = 1 THEN base ELSE base \o <<"-">> \o Decimal(k)
    IN  same =>
          /\ \A k \in 1..Len(g) : g[k].name = expected(k)
          /\ rulenames = {expected(k) : k \in 1..Len(g)}
          /\ Cardinality(rulenames) = Len(g)
          /\ (g[1].rule.title = Title_a_2 /\ Len(g) = 3) =>
                /\ g[1].name = <<"a", "-", "2">>
                /\ g[2].name = <<"a", "-", "2", "-", "2">>
                /\ g[3].name = <<"a", "-", "2", "-", "3">>

Wit_C2_ThreeSameTitle ==
    /\ Len(Generated) = 3
    /\ \A i \in 1..3 : Generated[i].rule.title = Title_a_2
    /\ Generated[3].name = <<"a", "-", "2", "-", "3">>

\* C3: the registry starts empty and every call, generate or finalize,
\* failing or not, leaves it a superset of what it was.
Thm_C3_RegistryGrows ==
    /\ rulenames = {}
    /\ [][rulenames \subseteq rulenames']_vars

\* a failed generate and a finalize have both run on a registry of two names
Wit_C3_AfterFailureAndFinalize ==
    /\ finalized
    /\ \E i \in 1..Len(Generated) : Generated[i].raised # "none"
    /\ Cardinality(rulenames) >= 2

\* C4 as stated: generate writes nothing to the sink and finalize writes
\* exactly once, whatever was buffered.
Cex_C4_FinalizeWritesOnce ==
    /\ ~finalized => output = <<>>
    /\ finalized => Len(output) = 1

\* C4 amended: generate writes nothing to the sink; Kibana's finalize writes
\* exactly one unit, the whole list; X-Pack Watcher's finalize writes one unit
\* per buffered watch, and with an output type other than plain and curl it
\* writes nothing and raises NotImplementedError when a watch is buffered.
Thm_C4_FinalizeWrites ==
    /\ ~finalized => output = <<>>
    /\ (finalized /\ backend = "kibana") =>
          /\ Len(output) = 1
          /\ output[1].doc = kibanaconf
          /\ Last(log).raised = "none"
    /\ (finalized /\ backend = "xpack-watcher" /\ OutputType(options) \in {"plain", "curl"}) =>
          /\ Len(output) = Len(watcher_alert)
          /\ \A i \in 1..Len(output) : output[i].doc = <<watcher_alert[i]>>
          /\ Last(log).raised = "none"
    /\ (finalized /\ backend = "xpack-watcher" /\ OutputType(options) \notin {"plain", "curl"}) =>
          /\ output = <<>>
          /\ (Last(log).raised = "NotImplementedError") = (Len(watcher_alert) > 0)
          /\ Last(log).raised \in {"none", "NotImplementedError"}

\* X-Pack Watcher finalized with two watches buffered
Wit_C4_TwoWatchesFinalized ==
    /\ finalized /\ backend = "xpack-watcher"
    /\ Len(watcher_alert) = 2 /\ Len(output) = 2

\* C5 as stated: after k generate calls, all successful, the accumulator
\* holds exactly k entries.
Cex_C5_OneEntryPerCall ==
    AllSucceeded =>
        /\ backend = "kibana" => Len(kibanaconf) = Len(Generated)
        /\ backend = "xpack-watcher" => Len(watcher_alert) = Len(Generated)

\* C5 amended: after k generate calls, all successful, watcher_alert holds
\* exactly k entries, one per call, and kibanaconf holds one entry per parsed
\* condition of the k rules (k only when every rule carries one condition).
Thm_C5_EntriesBuffered ==
    AllSucceeded =>
        /\ backend = "kibana" => Len(kibanaconf) = ConditionCount(Generated)
        /\ backend = "xpack-watcher" => Len(watcher_alert) = Len(Generated)

\* two successful calls, one of them for a rule with two conditions
Wit_C5_TwoConditionRule ==
    /\ AllSucceeded /\ Len(Generated) = 2
    /\ \E i \in 1..2 : Len(Generated[i].rule.condparsed) = 2
    /\ \/ backend = "kibana" /\ Len(kibanaconf) = 3
       \/ backend = "xpack-watcher" /\ Len(watcher_alert) = 2

\* C7: a generate call that fails leaves every entry buffered before it in
\* place: the accumulator before the call is a prefix of the one after it.
Thm_C7_FailureKeepsBuffered ==
    [][(log' # log /\ Last(log').op = "generate" /\ Last(log').raised # "none") =>
          /\ IsPrefix(kibanaconf, kibanaconf')
          /\ IsPrefix(watcher_alert, watcher_alert')]_vars

\* a call failed with TypeError after an earlier rule of the same title was buffered
Wit_C7_FailedAfterBuffered ==
    /\ Len(Generated) = 2
    /\ Generated[1].raised = "none"
    /\ Generated[2].raised = "TypeError"
    /\ Generated[1].rule.title = Generated[2].rule.title
    /\ Len(Generated[2].rule.condparsed) = 2
    /\ \/ Len(watcher_alert) = 2
       \/ Len(kibanaconf) = 2

-----------------------------------------------------------------------------
(* QualysBackend.generate *)

ParenPair == <<"(", ")">>

\* QualysBackend.generate from condition i on: what it raised (with the
\* exception's argument), the flag it leaves on the instance, and the lines
\* it has printed.  generateQuery runs twice per condition: once for the
\* test against "()", once more for the text that is raised or printed; both
\* runs assign the flag.
\* "if result == '()': self.PartialMatchFlag = None": the flag the tests of
\* PartialMatchFlag see after the first generateQuery
Qualys_tested(first) ==
    IF first.text = ParenPair THEN "None" ELSE first.flag

\* the raise / print that follows the test, with the second generateQuery's
\* result: [err, flag, arg]; err "none" means the text in arg was printed
Qualys_outcome(tested, again) ==
    IF again.err # "none"
    THEN [err |-> again.err, flag |-> again.flag, arg |-> <<>>]
    ELSE [err |-> IF tested = "True" THEN "PartialMatchError"
                  ELSE IF tested = "None" THEN "FullMatchError"
                  ELSE "none",
          flag |-> again.flag, arg |-> again.text]

\* the body of the loop for one parsed condition, given the first
\* generateQuery's result
Qualys_condition(b, cond, first) ==
    IF first.err # "none"
    THEN [err |-> first.err, flag |-> first.flag, arg |-> <<>>]
    ELSE Qualys_outcome(Qualys_tested(first),
                        generateQuery(b, cond, Qualys_tested(first)))

RECURSIVE Qualys_generate(_, _, _, _, _)
\* the loop's continuation after condition i ended as r
Qualys_continue(b, conds, i, printed, r) ==
    IF r.err # "none"
    THEN [err |-> r.err, flag |-> r.flag, printed |-> printed, arg |-> r.arg]
    ELSE Qualys_generate(b, conds, i + 1, r.flag, Append(printed, r.arg))

Qualys_generate(b, conds, i, flag, printed) ==
    IF i > Len(conds)
    THEN [err |-> "none", flag |-> flag, printed |-> printed, arg |-> <<>>]
    ELSE Qualys_continue(b, conds, i, printed,
             Qualys_condition(b, conds[i], generateQuery(b, conds[i], flag)))

-----------------------------------------------------------------------------
(* Rules fed to the Qualys backend *)

\* id:`a`
Item_ok  == MapItem(F_id, StrNode(<<"a">>))
\* a field outside the allow-list; rendered as the free text z where it is kept
Item_bad == MapItem(F_cmd, StrNode(<<"z">>))
\* a list value on a field outside the allow-list: (z) where it is kept
Item_badlist == MapItem(F_cmd, ListNode(<<StrNode(<<"z">>)>>))

\* count() by usr > 5
SomeAgg == [aggfunc |-> "count", aggfunc_notrans |-> <<"c", "o", "u", "n", "t">>,
            aggfield |-> <<>>, groupfield |-> F_user, cond_op |-> ">", condition |-> 5]

QRule(conds) == Rule(Title_a, conds, <<>>, <<>>)

QualysRules ==
    { QRule(<<Cond(Item_ok)>>),
      QRule(<<Cond(AndNode(<<Item_bad, Item_ok>>))>>),
      QRule(<<Cond(SubNode(AndNode(<<Item_bad>>)))>>),
      QRule(<<Cond(SubNode(OrNode(<<Item_bad>>)))>>),
      QRule(<<Cond(OrNode(<<Item_bad, Item_ok>>))>>),
      QRule(<<Cond(Item_ok), Cond(NotNode(Item_ok))>>),
      QRule(<<[parsedSearch |-> Item_ok, parsedAgg |-> SomeAgg]>>) }

\* condition trees of at most this many nodes
MaxNodes == 5

TreeLeaves == {Item_ok, Item_bad, Item_badlist}

RECURSIVE TreesOfSize(_)
TreesOfSize(n) ==
    IF n = 1 THEN TreeLeaves
    ELSE UNION { {NotNode(t), SubNode(t), AndNode(<<t>>), OrNode(<<t>>)}
                 : t \in TreesOfSize(n - 1) }
         \cup UNION { UNION { {AndNode(<<l, r>>), OrNode(<<l, r>>)}
                              : l \in TreesOfSize(k), r \in TreesOfSize(n - 1 - k) }
                      : k \in 1..(n - 2) }

Trees == UNION {TreesOfSize(n) : n \in 1..MaxNodes}

\* single-condition rules, with and without an aggregation
TreeRules ==
    {QRule(<<[parsedSearch |-> t, parsedAgg |-> a]>>) : t \in Trees, a \in {NoAgg, SomeAgg}}

-----------------------------------------------------------------------------
(* The Qualys instance *)

InitQualys ==
    /\ backend = "qualys"
    /\ options = <<>>
    /\ rulenames = {}
    /\ kibanaconf = <<>>
    /\ watcher_alert = <<>>
    /\ PartialMatchFlag = "False"
    /\ output = <<>>
    /\ stdout = <<>>
    /\ finalized = FALSE
    /\ log = <<>>

\* the instance after a generate call that ended as r
QualysGenerated(rule, r) ==
    /\ PartialMatchFlag' = r.flag
    /\ stdout' = stdout \o r.printed
    /\ log' = Append(log, [op |-> "generate", rule |-> rule,
                           raised |-> r.err, arg |-> r.arg, flagBefore |-> PartialMatchFlag])

\* the lines go to the builtin print, not to self.output
QualysGenerate(rule) ==
    /\ backend = "qualys"
    /\ ~finalized
    /\ Len(Generated) < MaxRules
    /\ QualysGenerated(rule, Qualys_generate(QualysBackend, rule.condparsed, 1,
                                             PartialMatchFlag, <<>>))
    /\ UNCHANGED <<backend, options, rulenames, kibanaconf, watcher_alert, output, finalized>>

\* BaseBackend.finalize: pass
BaseFinalize ==
    /\ backend \notin {"kibana", "xpack-watcher"}
    /\ ~finalized
    /\ finalized' = TRUE
    /\ log' = Append(log, [op |-> "finalize", rule |-> NoRule,
                           raised |-> "none", arg |-> <<>>, flagBefore |-> PartialMatchFlag])
    /\ UNCHANGED <<backend, options, rulenames, kibanaconf, watcher_alert,
                   PartialMatchFlag, output, stdout>>

NextQualys ==
    \/ \E rule \in QualysRules : QualysGenerate(rule)
    \/ BaseFinalize

SpecQualys == InitQualys /\ [][NextQualys]_vars

\* one generate call on a fresh instance, for every tree
QualysGenerateFresh(rule) == Len(log) = 0 /\ QualysGenerate(rule)

NextQualysTree == \E rule \in TreeRules : QualysGenerateFresh(rule)

SpecQualysTree == InitQualys /\ [][NextQualysTree]_vars

-----------------------------------------------------------------------------
(* Properties of the Qualys backend *)

\* a map item on a field that is no target of the field mapping
IsBadItem(t) == t.type = "tuple" /\ t.key \notin {F_id, F_user, F_uname}

\* some AND node of the tree has a direct child map item with a disallowed field
RECURSIVE HasBadAnd(_)
HasBadAnd(t) ==
    CASE t.type = "ConditionAND" ->
            \/ \E i \in 1..Len(t.items) : IsBadItem(t.items[i])
            \/ \E i \in 1..Len(t.items) : HasBadAnd(t.items[i])
      [] t.type = "ConditionOR" -> \E i \in 1..Len(t.items) : HasBadAnd(t.items[i])
      [] t.type = "ConditionNOT" -> HasBadAnd(t.item)
      [] t.type = "NodeSubexpression" -> HasBadAnd(t.inner)
      [] OTHER -> FALSE

\* some disallowed map item is not a direct child of an AND or OR node
RECURSIVE HasKeptBadItem(_)
HasKeptBadItem(t) ==
    CASE t.type \in {"ConditionAND", "ConditionOR"} ->
            \E i \in 1..Len(t.items) : ~IsBadItem(t.items[i]) /\ HasKeptBadItem(t.items[i])
      [] t.type = "ConditionNOT" -> HasKeptBadItem(t.item)
      [] t.type = "NodeSubexpression" -> HasKeptBadItem(t.inner)
      [] OTHER -> IsBadItem(t)

\* some map item of the tree is on a disallowed (resp. an allowed) field
RECURSIVE HasItem(_, _)
HasItem(t, bad) ==
    CASE t.type \in {"ConditionAND", "ConditionOR"} ->
            \E i \in 1..Len(t.items) : HasItem(t.items[i], bad)
      [] t.type = "ConditionNOT" -> HasItem(t.item, bad)
      [] t.type = "NodeSubexpression" -> HasItem(t.inner, bad)
      [] t.type = "tuple" -> IsBadItem(t) = bad
      [] OTHER -> FALSE

AllFieldsAllowed(rule) ==
    \A i \in 1..Len(rule.condparsed) : ~HasItem(rule.condparsed[i].parsedSearch, TRUE)

Contains(text, c) == \E i \in 1..Len(text) : text[i] = c

\* C6 as stated (checked under SpecQualys): after a call that raised
\* PartialMatchError or FullMatchError, a later call for a rule whose fields
\* are all allowed has the outcome it has on a fresh instance (it raises
\* neither of the two).
Cex_C6_FailureDoesNotStick ==
    \A i, j \in 1..Len(Generated) :
        (/\ i < j
         /\ Generated[i].raised \in {"PartialMatchError", "FullMatchError"}
         /\ AllFieldsAllowed(Generated[j].rule)) =>
            /\ Generated[j].raised \notin {"PartialMatchError", "FullMatchError"}
            /\ Generated[j].raised =
                 Qualys_generate(QualysBackend, Generated[j].rule.condparsed, 1, "False", <<>>).err

\* C8 as stated (checked under SpecQualysTree): on a fresh instance generate
\* raises PartialMatchError exactly when some AND node has a direct child map
\* item with a disallowed field and the query text is not "()".
Cex_C8_PartialExactlyWhenBadAnd ==
    \A k \in 1..Len(Generated) :
        LET tree == Generated[k].rule.condparsed[1].parsedSearch
            text == generateNode(QualysBackend, tree, "False").text
        IN  (Generated[k].raised = "PartialMatchError") <=>
                (HasBadAnd(tree) /\ text # ParenPair)

\* C8 amended: OR rendering drops the disallowed direct children and leaves
\* the flag alone, AND rendering drops them and sets the flag; on a fresh
\* instance, generate for a single-condition rule without an aggregation
\* raises PartialMatchError exactly when some AND node has a direct child map
\* item with a disallowed field and the text is not "()"; for a rule with an
\* aggregation it raises NotImplementedError instead.
Thm_C8_AndOrAsymmetry ==
    \A k \in 1..Len(Generated) :
        LET call == Generated[k]
            tree == call.rule.condparsed[1].parsedSearch
            walk == generateNode(QualysBackend, tree, "False")
        IN  /\ walk.err = "none"
            /\ (walk.flag = "True") <=> HasBadAnd(tree)
            /\ walk.flag \in {"True", "False"}
            /\ Contains(walk.text, "z") <=> HasKeptBadItem(tree)
            /\ call.rule.condparsed[1].parsedAgg = NoAgg =>
                  ((call.raised = "PartialMatchError") <=>
                      (HasBadAnd(tree) /\ walk.text # ParenPair))
            /\ call.rule.condparsed[1].parsedAgg # NoAgg =>
                  call.raised = "NotImplementedError"

\* an OR that dropped a disallowed child returned normally, and an AND that
\* dropped one raised PartialMatchError
Wit_C8_OrDropsSilently ==
    /\ Len(Generated) = 1
    /\ Generated[1].rule.condparsed[1] = Cond(OrNode(<<Item_bad, Item_ok>>))
    /\ Generated[1].raised = "none"
    /\ stdout = <<Item_ok.key \o <<":", BQ, "a", BQ>>>>
    /\ PartialMatchFlag = "False"

\* C9 as stated (checked under SpecQualysTree): when every map item of the
\* tree is on a disallowed field and all are filtered out by AND/OR nodes,
\* generate raises FullMatchError, for a top-level AND, OR or subexpression.
Cex_C9_NothingLeftIsFullMatch ==
    \A k \in 1..Len(Generated) :
        LET call == Generated[k]
            tree == call.rule.condparsed[1].parsedSearch
        IN  (/\ call.rule.condparsed[1].parsedAgg = NoAgg
             /\ tree.type \in {"ConditionAND", "ConditionOR", "NodeSubexpression"}
             /\ HasItem(tree, TRUE) /\ ~HasItem(tree, FALSE)
             /\ ~HasKeptBadItem(tree)) =>
                call.raised = "FullMatchError"

-----------------------------------------------------------------------------
(* The dispatch engine on its own: generateNode called on single nodes *)

\* generateNode calls on one instance
MaxCalls == 2

DispatchNodes ==
    { AndNode(<<Item_ok, Item_bad>>), OrNode(<<Item_ok, Item_bad>>), NotNode(Item_ok),
      NullNode(F_id), NotNullNode(F_id), SubNode(Item_ok), Item_ok, Item_bad,
      StrNode(<<"a", ":", "b">>), IntNode(4),
      ListNode(<<StrNode(<<"a">>), IntNode(4)>>),
      NoneNode, BoolNode(TRUE), BoolNode(FALSE), DictNode }

InitDispatch ==
    /\ backend \in {"es-qs", "qualys"}
    /\ options = <<>>
    /\ rulenames = {}
    /\ kibanaconf = <<>>
    /\ watcher_alert = <<>>
    /\ PartialMatchFlag = "False"
    /\ output = <<>>
    /\ stdout = <<>>
    /\ finalized = FALSE
    /\ log = <<>>

\* the generation steps generateNode forwards the node to
StepsCalled(node) ==
    IF DispatchStep(node) = "TypeError" THEN <<>> ELSE <<DispatchStep(node)>>

\* the instance after a generateNode call that ended as r
NodeGenerated(node, r) ==
    /\ PartialMatchFlag' = r.flag
    /\ log' = Append(log, [op |-> "generateNode", node |-> node,
                           steps |-> StepsCalled(node),
                           raised |-> r.err, text |-> r.text])

GenerateNode(node) ==
    /\ Len(log) < MaxCalls
    /\ NodeGenerated(node, generateNode(BackendClass(backend), node, PartialMatchFlag))
    /\ UNCHANGED <<backend, options, rulenames, kibanaconf, watcher_alert,
                   output, stdout, finalized>>

NextDispatch == \E node \in DispatchNodes : GenerateNode(node)

SpecDispatch == InitDispatch /\ [][NextDispatch]_vars

\* C10: generateNode forwards a node to exactly one generation step, the one
\* of its variant, and for a value of any other type it calls no step and
\* raises TypeError.
Thm_C10_DispatchByVariant ==
    \A k \in 1..Len(log) :
        LET t == log[k].node.type
            steps == log[k].steps
        IN  /\ t = "ConditionAND" => steps = <<"generateANDNode">>
            /\ t = "ConditionOR" => steps = <<"generateORNode">>
            /\ t = "ConditionNOT" => steps = <<"generateNOTNode">>
            /\ t = "ConditionNULLValue" => steps = <<"generateNULLValueNode">>
            /\ t = "ConditionNotNULLValue" => steps = <<"generateNotNULLValueNode">>
            /\ t = "NodeSubexpression" => steps = <<"generateSubexpressionNode">>
            /\ t = "tuple" => steps = <<"generateMapItemNode">>
            /\ t \in {"str", "int"} => steps = <<"generateValueNode">>
            /\ t = "list" => steps = <<"generateListNode">>
            /\ t \in {"NoneType", "bool", "dict"} =>
                  steps = <<>> /\ log[k].raised = "TypeError" /\ log[k].text = <<>>
            /\ t \notin {"NoneType", "bool", "dict"} =>
                  Len(steps) = 1 /\ log[k].raised = "none"

\* a boolean was rejected and a string was rendered by the value step
Wit_C10_BoolRejectedStrRendered ==
    /\ backend = "es-qs" /\ Len(log) = 2
    /\ log[1].node = BoolNode(TRUE) /\ log[1].raised = "TypeError"
    /\ log[2].node = StrNode(<<"a", ":", "b">>)
    /\ log[2].text = <<"\"", "a", "\\", ":", "b", "\"">>

-----------------------------------------------------------------------------
(* generate of the line-oriented backends *)

RECURSIVE Base_generate(_, _, _, _)
\* self.output.print(self.generateQuery(parsed)) for condition i, then the
\* rest of the loop
Base_print(b, conds, i, printed, r) ==
    IF r.err # "none"
    THEN [err |-> r.err, printed |-> printed, const_start |-> <<>>]
    ELSE Base_generate(b, conds, i + 1, Append(printed, r.text))

\* BaseBackend.generate from condition i on: what it raised and the units it
\* has handed to self.output.print
Base_generate(b, conds, i, printed) ==
    IF i > Len(conds)
    THEN [err |-> "none", printed |-> printed, const_start |-> <<>>]
    ELSE Base_print(b, conds, i, printed, generateQuery(b, conds[i], "False"))

\* const_title.format(sigmaparser.parsedyaml["title"])
const_title(title) ==
    <<" ", "A", "N", "D", " ", "t", "y", "p", "e", " ", "!", "=", " ", "2", " ", "|", " ", "r", "e", "x", " ", "f", "i", "e", "l", "d", " ", "=", " ", "f", "l", "e", "x", "S", "t", "r", "i", "n", "g", "1", " ", "m", "o", "d", "e", "=", "s", "e", "d", " ", "\"", "s", "/", "/", "S", "i", "g", "m", "a", ":", " ">>
    \o title \o <<"/", "g", "\"">>

RECURSIVE ArcSight_generate(_, _, _, _)
ArcSight_print(b, rule, i, printed, r) ==
    IF r.err # "none"
    THEN [err |-> r.err, printed |-> printed, const_start |-> <<>>]
    ELSE ArcSight_generate(b, rule, i + 1,
                           Append(printed, r.text \o const_title(rule.title)))

\* ArcSightBackend.generate from condition i on
ArcSight_generate(b, rule, i, printed) ==
    IF i > Len(rule.condparsed)
    THEN [err |-> "none", printed |-> printed, const_start |-> <<>>]
    ELSE ArcSight_print(b, rule, i, printed,
                        generateQuery(b, rule.condparsed[i], "False"))

\* the value QRadarBackend.generate assigns to self.const_start
const_start ==
    <<"S", "E", "L", "E", "C", "T", " ", "U", "T", "F", "8", "(", "p", "a", "y", "l", "o", "a", "d", ")", " ", "a", "s", " ", "s", "e", "a", "r", "c", "h", "_", "p", "a", "y", "l", "o", "a", "d", " ", "f", "r", "o", "m", " ", "e", "v", "e", "n", "t", "s", " ", "w", "h", "e", "r", "e", " ">>

RECURSIVE QRadar_generate(_, _, _, _, _)
\* self.output.print(self.const_start + self.generateQuery(parsed)): the left
\* operand is read before generateQuery runs, the steps' assignment to
\* self.const_start is seen by the next condition
QRadar_print(b, conds, i, start, printed, r) ==
    IF r.err # "none"
    THEN [err |-> r.err, printed |-> printed, const_start |-> r.flag]
    ELSE QRadar_generate(b, conds, i + 1, r.flag, Append(printed, start \o r.text))

\* QRadarBackend.generate from condition i on, with self.const_start = start
QRadar_generate(b, conds, i, start, printed) ==
    IF i > Len(conds)
    THEN [err |-> "none", printed |-> printed, const_start |-> start]
    ELSE QRadar_print(b, conds, i, start, printed, generateQuery(b, conds[i], start))

-----------------------------------------------------------------------------
(* Rules fed to the line-oriented backends *)

\* usr:"b"
Item_user == MapItem(F_user, StrNode(<<"b">>))

Count == <<"c", "o", "u", "n", "t">>

\* count() > 5, count() by usr >= 5, count() < 5, count() by usr <= 5
AggOp(op) ==
    [aggfunc |-> "count", aggfunc_notrans |-> Count, aggfield |-> <<>>,
     groupfield |-> IF op \in {">=", "<="} THEN F_user ELSE <<>>,
     cond_op |-> op, condition |-> 5]

\* an aggregation without operator and threshold
AggAbsent ==
    [aggfunc |-> "count", aggfunc_notrans |-> Count, aggfield |-> <<>>,
     groupfield |-> <<>>, cond_op |-> "None", condition |-> 0]

\* near: SigmaAggregationParser.AGGFUNC_NEAR
AggNear ==
    [aggfunc |-> "near", aggfunc_notrans |-> <<"n", "e", "a", "r">>, aggfield |-> <<>>,
     groupfield |-> <<>>, cond_op |-> "None", condition |-> 0]

CondAgg(node, agg) == [parsedSearch |-> node, parsedAgg |-> agg]

Operators == <<">", ">=", "<", "<=">>

LineRules ==
    { QRule(<<Cond(Item_ok)>>),
      QRule(<<Cond(Item_ok), Cond(AndNode(<<Item_ok, Item_user>>))>>),
      QRule(<<Cond(Item_bad)>>),
      QRule(<<Cond(MapItem(F_user, ListNode(<<StrNode(<<"a">>), NoneNode>>)))>>),
      QRule(<<Cond(Item_ok), Cond(ListNode(<<StrNode(<<"a">>), NoneNode>>))>>),
      QRule(<<CondAgg(Item_ok, AggNear)>>),
      QRule(<<CondAgg(Item_ok, AggAbsent)>>),
      QRule([k \in 1..4 |-> CondAgg(Item_ok, AggOp(Operators[k]))]),
      QRule(<<Cond(OrNode(<<Item_user, Item_ok>>)), Cond(NotNode(Item_ok))>>) }

-----------------------------------------------------------------------------
(* An instance of a line-oriented backend: construction, generate, finalize *)

\* generate calls on one line-oriented instance
MaxLineCalls == 2

LineBackends == Identifiers \ {"kibana", "xpack-watcher"}

InitLine ==
    /\ backend \in LineBackends
    /\ options = <<>>
    /\ rulenames = {}
    /\ kibanaconf = <<>>
    /\ watcher_alert = <<>>
    /\ PartialMatchFlag = "False"
    /\ output = <<>>
    /\ stdout = <<>>
    /\ finalized = FALSE
    /\ log = <<>>

\* the instance after a generate call that ended as r
LineGenerated(rule, r) ==
    /\ output' = output \o r.printed
    /\ log' = Append(log, [op |-> "generate", rule |-> rule, raised |-> r.err,
                           printed |-> r.printed, const_start |-> r.const_start])

\* generate as inherited from BaseBackend
BaseGenerate(rule) ==
    /\ backend \in {"es-qs", "graylog", "logpoint", "splunk", "grep", "fieldlist"}
    /\ ~finalized
    /\ Len(Generated) < MaxLineCalls
    /\ LineGenerated(rule, Base_generate(BackendClass(backend), rule.condparsed, 1, <<>>))
    /\ UNCHANGED <<backend, options, rulenames, kibanaconf, watcher_alert,
                   PartialMatchFlag, stdout, finalized>>

ArcSightGenerate(rule) ==
    /\ backend = "as"
    /\ ~finalized
    /\ Len(Generated) < MaxLineCalls
    /\ LineGenerated(rule, ArcSight_generate(ArcSightBackend, rule, 1, <<>>))
    /\ UNCHANGED <<backend, options, rulenames, kibanaconf, watcher_alert,
                   PartialMatchFlag, stdout, finalized>>

QRadarGenerate(rule) ==
    /\ backend = "qradar"
    /\ ~finalized
    /\ Len(Generated) < MaxLineCalls
    /\ LineGenerated(rule, QRadar_generate(QRadarBackend, rule.condparsed, 1,
                                           const_start, <<>>))
    /\ UNCHANGED <<backend, options, rulenames, kibanaconf, watcher_alert,
                   PartialMatchFlag, stdout, finalized>>

LineQualysGenerate(rule) == Len(Generated) < MaxLineCalls /\ QualysGenerate(rule)

NextLine ==
    \/ \E rule \in LineRules : BaseGenerate(rule)
    \/ \E rule \in LineRules : ArcSightGenerate(rule)
    \/ \E rule \in LineRules : QRadarGenerate(rule)
    \/ \E rule \in LineRules : LineQualysGenerate(rule)
    \/ BaseFinalize

SpecLine == InitLine /\ [][NextLine]_vars

-----------------------------------------------------------------------------
(* Every backend's generation steps: generateNode on a fresh instance *)

Str_a == StrNode(<<"a">>)
Str_x == StrNode(<<"x">>)

\* lists with an element that is neither str nor int, and one without
BadLists == { ListNode(<<Str_a, NoneNode>>), ListNode(<<BoolNode(TRUE)>>),
              ListNode(<<DictNode>>) }
GoodList == ListNode(<<Str_a, IntNode(4)>>)

\* a mapped target field, a field outside every allow-list, and the three
\* names ArcSight and QRadar always allow
StepKeys == {F_id, F_user, F_cmd, F_deviceVendor, F_categoryDeviceGroup, F_deviceProduct}

StepNodes ==
    BadLists \cup {GoodList}
    \cup { MapItem(key, value) : key \in {F_user, F_cmd, F_deviceVendor},
                                 value \in BadLists \cup {GoodList} }
    \cup { MapItem(key, Str_x) : key \in StepKeys }
    \cup { AndNode(<<Item_ok, Item_user>>), OrNode(<<Item_ok, Item_user>>),
           AndNode(<<OrNode(<<Item_ok, Item_bad>>), Item_user>>),
           OrNode(<<AndNode(<<Item_ok, Item_bad>>), SubNode(OrNode(<<Item_ok, Item_user>>))>>),
           AndNode(<<Str_a, NotNode(Item_ok)>>), AndNode(<<Item_ok>>) }

InitSteps ==
    /\ backend \in Identifiers
    /\ options = <<>>
    /\ rulenames = {}
    /\ kibanaconf = <<>>
    /\ watcher_alert = <<>>
    /\ PartialMatchFlag = "False"
    /\ output = <<>>
    /\ stdout = <<>>
    /\ finalized = FALSE
    /\ log = <<>>

\* the instance after a generateNode call that ended as r; only Qualys keeps
\* a flag on the instance
StepGenerated(node, r) ==
    /\ PartialMatchFlag' = (IF backend = "qualys" THEN r.flag ELSE PartialMatchFlag)
    /\ log' = Append(log, [op |-> "generateNode", node |-> node,
                           raised |-> r.err, text |-> r.text])

\* generateNode on a fresh instance (QRadar: self.const_start not yet assigned)
RenderNode(node) ==
    /\ Len(log) = 0
    /\ StepGenerated(node, generateNode(BackendClass(backend), node,
                                        IF backend = "qradar" THEN <<>> ELSE PartialMatchFlag))
    /\ UNCHANGED <<backend, options, rulenames, kibanaconf, watcher_alert,
                   output, stdout, finalized>>

NextSteps == \E node \in StepNodes : RenderNode(node)

SpecSteps == InitSteps /\ [][NextSteps]_vars

-----------------------------------------------------------------------------
(* cleanValue on its own *)

\* length of the values cleaned
MaxLen == 3

CleanAlphabet == {"a", "*", "\\", "&", "|", "<", ">", ".", "\""}

CleanValues == UNION { [1..n -> CleanAlphabet] : n \in 0..MaxLen }

\* the backends that define reEscape or reClear
CleanBackends == {"es-qs", "graylog", "splunk", "logpoint", "grep"}

InitClean ==
    /\ backend \in CleanBackends
    /\ options = <<>>
    /\ rulenames = {}
    /\ kibanaconf = <<>>
    /\ watcher_alert = <<>>
    /\ PartialMatchFlag = "False"
    /\ output = <<>>
    /\ stdout = <<>>
    /\ finalized = FALSE
    /\ log = <<>>

\* self.cleanValue(val) as the instance's class resolves it
CleanValueOf(b, val) ==
    IF b.identifier = "grep" THEN Grep_cleanValue(b, val) ELSE cleanValue(b, val)

CleanValue(val) ==
    /\ Len(log) = 0
    /\ log' = Append(log, [op |-> "cleanValue", val |-> val,
                           text |-> CleanValueOf(BackendClass(backend), val)])
    /\ UNCHANGED <<backend, options, rulenames, kibanaconf, watcher_alert,
                   PartialMatchFlag, output, stdout, finalized>>

NextClean == \E val \in CleanValues : CleanValue(val)

SpecClean == InitClean /\ [][NextClean]_vars

-----------------------------------------------------------------------------
(* Properties of the generation steps, checked under SpecSteps *)

\* a list holding an element that is neither str nor int
IsBadList(node) == node.type = "list" /\ ~AllScalars(node.items)

\* C11: in every backend, rendering a list that holds an element that is
\* neither a string nor an integer raises TypeError, both for a bare list node
\* and for a list that is the value of a map item.
Cex_C11_BadListRejected ==
    \A k \in 1..Len(log) :
        LET node == log[k].node
        IN  \/ IsBadList(node)
            \/ (node.type = "tuple" /\ IsBadList(node.value))
            => log[k].raised = "TypeError"

-----------------------------------------------------------------------------
(* Properties of the line-oriented backends, checked under SpecLine *)

\* the rule has a condition with a near aggregation
HasNear(rule) ==
    \E i \in 1..Len(rule.condparsed) : rule.condparsed[i].parsedAgg.aggfunc = "near"

\* C12: in every backend, generate for a rule whose condition carries a near
\* aggregation raises NotImplementedError; no backend writes the query with
\* the aggregation dropped.
Cex_C12_NearRejected ==
    \A k \in 1..Len(log) :
        (log[k].op = "generate" /\ HasNear(log[k].rule))
        => log[k].raised = "NotImplementedError"

\* the text an aggregation's comparison must end with: the operator and the
\* threshold, or a not-equal-to-zero comparison when the operator is absent
ExpectedComparison(agg) ==
    IF agg.cond_op = "None" THEN <<"!", "=", " ", "0">>
    ELSE <<" ">> \o CondOpText(agg) \o <<" ">> \o ConditionText(agg)

IsSuffix(s, t) == Len(s) <= Len(t) /\ SubSeq(t, Len(t) - Len(s) + 1, Len(t)) = s

\* C13: Splunk and LogPoint render every aggregation's comparison: each of
\* >, >=, <, <= as that operator against the threshold, an absent operator as
\* a comparison for not equal to zero.
Cex_C13_OperatorMappingTotal ==
    backend \in {"splunk", "logpoint"} =>
        \A k \in 1..Len(log) :
            (log[k].op = "generate" /\ log[k].raised = "none") =>
                \A i \in 1..Len(log[k].rule.condparsed) :
                    LET agg == log[k].rule.condparsed[i].parsedAgg
                    IN  agg.aggfunc # "None" =>
                            IsSuffix(ExpectedComparison(agg), log[k].printed[i])

-----------------------------------------------------------------------------
(* Target indices of the multi-rule backends, checked under SpecMulti *)

\* the saved searches buffered under a name
KibanaEntriesOf(name) == SelectSeq(kibanaconf, LAMBDA e : e._id = name)

\* the watches stored under a name
WatchesOf(name) == SelectSeq(watcher_alert, LAMBDA e : e.key = name)

\* C14 as stated: every buffered unit of Kibana and of X-Pack Watcher targets
\* exactly one index, "*" for a rule without index, and a rule with several
\* indices raises NotSupportedError and buffers nothing.
Cex_C14_OneIndexEverywhere ==
    \A k \in 1..Len(Generated) :
        LET call == Generated[k]
            idx  == call.rule.index
            one  == IF Len(idx) = 0 THEN "*" ELSE idx[1]
        IN  /\ Len(idx) > 1 =>
                /\ call.raised = "NotSupportedError"
                /\ Len(KibanaEntriesOf(call.name)) = 0
                /\ Len(WatchesOf(call.name)) = 0
            /\ Len(idx) <= 1 =>
                /\ \A i \in 1..Len(KibanaEntriesOf(call.name)) :
                       KibanaEntriesOf(call.name)[i].index = one
                /\ \A i \in 1..Len(WatchesOf(call.name)) :
                       WatchesOf(call.name)[i].value.indices = <<one>>

\* the call's columns loop and the search part of its first condition succeed
ReachesIndexTest(rule) ==
    /\ KibanaColumns(rule.fields, <<>>).err = "none"
    /\ Len(rule.condparsed) > 0
    /\ generateNode(KibanaBackend, rule.condparsed[1].parsedSearch, "False").err = "none"

\* C14, amended: every saved search Kibana buffers targets exactly one index,
\* "*" for a rule without index and the rule's index otherwise; a Kibana rule
\* with several indices buffers nothing and raises NotSupportedError once its
\* first condition's search part is generated.  X-Pack Watcher stores the
\* rule's index list as it is, empty or with several indices, and never
\* raises NotSupportedError.
Thm_C14_KibanaOneIndex ==
    \A k \in 1..Len(Generated) :
        LET call == Generated[k]
            idx  == call.rule.index
        IN  /\ backend = "kibana" =>
                /\ Len(idx) > 1 =>
                    /\ Len(KibanaEntriesOf(call.name)) = 0
                    /\ call.raised # "none"
                    /\ ReachesIndexTest(call.rule) => call.raised = "NotSupportedError"
                /\ Len(idx) <= 1 =>
                    \A i \in 1..Len(KibanaEntriesOf(call.name)) :
                        KibanaEntriesOf(call.name)[i].index =
                            (IF Len(idx) = 0 THEN "*" ELSE idx[1])
            /\ backend = "xpack-watcher" =>
                /\ call.raised # "NotSupportedError"
                /\ \A i \in 1..Len(WatchesOf(call.name)) :
                       WatchesOf(call.name)[i].value.indices = idx

\* Kibana buffered a rule without index under "*" and then refused a rule
\* with two indices, buffering nothing for it
Wit_C14_TwoIndices ==
    /\ backend = "kibana" /\ Len(Generated) = 2
    /\ Len(Generated[1].rule.index) = 0 /\ Generated[1].raised = "none"
    /\ kibanaconf[1].index = "*"
    /\ Len(Generated[2].rule.index) = 2 /\ Generated[2].raised = "NotSupportedError"
    /\ Len(kibanaconf) = Len(Generated[1].rule.condparsed)

-----------------------------------------------------------------------------
(* Allow-lists and AND/OR joining, checked under SpecSteps *)

\* C15: in ArcSight, QRadar and Qualys a map item on a field of the
\* allow-list (the mapped target fields and the fixed names deviceVendor,
\* categoryDeviceGroup, deviceProduct) renders as a comparison that contains
\* the field name, and a map item on any other field renders as free text
\* without the field name.
Cex_C15_AllowListDecidesForm ==
    backend \in {"as", "qradar", "qualys"} =>
        \A k \in 1..Len(log) :
            (log[k].node.type = "tuple" /\ log[k].raised = "none") =>
                (log[k].node.key \in allowedFieldsList \cup fixedFieldsList
                 <=> HasSubstring(log[k].text, log[k].node.key))

\* the tree holds an explicit subexpression
RECURSIVE HasSubexpression(_)
HasSubexpression(t) ==
    CASE t.type = "NodeSubexpression" -> TRUE
      [] t.type \in {"ConditionAND", "ConditionOR"} ->
            \E i \in 1..Len(t.items) : HasSubexpression(t.items[i])
      [] t.type = "ConditionNOT" -> HasSubexpression(t.item)
      [] OTHER -> FALSE

\* the renderings of a node's children, each generated on its own
ChildTexts(b, node) ==
    [i \in 1..Len(node.items) |-> generateNode(b, node.items[i], "False").text]

\* C16: under es-qs, graylog, splunk and logpoint an AND or OR node renders
\* as its children's renderings, in order, joined by the AND or OR token; the
\* step adds no parentheses, so a tree without subexpression renders without
\* any, and AND of id:"a", usr:"b" under es-qs renders id:"a" AND usr:"b".
Thm_C16_JoinedByToken ==
    backend \in {"es-qs", "graylog", "splunk", "logpoint"} =>
        \A k \in 1..Len(log) :
            LET node == log[k].node
                b    == BackendClass(backend)
            IN  node.type \in {"ConditionAND", "ConditionOR"} =>
                    /\ log[k].raised = "none"
                    /\ log[k].text =
                         Join(ChildTexts(b, node),
                              IF node.type = "ConditionAND" THEN b.andToken ELSE b.orToken)
                    /\ ~HasSubexpression(node) => ~Contains(log[k].text, "(")
                    /\ (backend = "es-qs" /\ node = AndNode(<<Item_ok, Item_user>>)) =>
                          log[k].text = <<"i", "d", ":", "\"", "a", "\"", " ", "A", "N", "D", " ", "u", "s", "r", ":", "\"", "b", "\"">>

\* graylog rendered an OR whose first child is an AND and whose second child
\* is a subexpression: only the subexpression is in parentheses
Wit_C16_NestedWithoutParens ==
    /\ backend = "graylog" /\ Len(log) = 1
    /\ log[1].node = OrNode(<<AndNode(<<Item_ok, Item_bad>>),
                              SubNode(OrNode(<<Item_ok, Item_user>>))>>)
    /\ log[1].text = <<"i", "d", ":", "\"", "a", "\"", " ", "A", "N", "D", " ", "c", "m", "d", ":", "\"", "z", "\"", " ", "O", "R", " ", "(", "i", "d", ":", "\"", "a", "\"", " ", "O", "R", " ", "u", "s", "r", ":", "\"", "b", "\"", ")">>

-----------------------------------------------------------------------------
(* Properties of cleanValue, checked under SpecClean *)

\* re.search(val): some substring of val is matched by the expression
Matches(re, val) ==
    \E i \in 1..Len(val) :
        \/ val[i] \in re.chars
        \/ val[i] \in re.guarded /\ ~(i < Len(val) /\ val[i + 1] \in re.unless)
        \/ i < Len(val) /\ <<val[i], val[i + 1]>> \in re.pairs

\* the value has nothing the backend's escape or strip expression matches
NothingToClean(b, val) == ~Matches(b.reEscape, val) /\ ~Matches(b.reClear, val)

\* C17 as stated: for es-qs, graylog, splunk, logpoint and grep, cleanValue
\* returns a value unchanged when no substring of it is matched by the
\* backend's escape or strip expression.
Cex_C17_CleanIsIdentity ==
    \A k \in 1..Len(log) :
        NothingToClean(BackendClass(backend), log[k].val) => log[k].text = log[k].val

Stars(val) == Len(SelectSeq(val, LAMBDA c : c = "*"))

\* C17, amended: cleanValue returns such a value unchanged under es-qs,
\* graylog, splunk and logpoint, and under grep when the value holds no "*";
\* grep's cleanValue turns every "*" of it into ".*".
Thm_C17_CleanIsIdentityButStar ==
    \A k \in 1..Len(log) :
        NothingToClean(BackendClass(backend), log[k].val) =>
            /\ (backend # "grep" \/ Stars(log[k].val) = 0) => log[k].text = log[k].val
            /\ backend = "grep" =>
                /\ Len(log[k].text) = Len(log[k].val) + Stars(log[k].val)
                /\ SelectSeq(log[k].text, LAMBDA c : c # ".") = log[k].val

\* graylog, whose escape expression matches a backslash unless a star or a
\* question mark follows, returned a value with backslash and star unchanged
Wit_C17_NothingMatched ==
    /\ backend = "graylog" /\ Len(log) = 1
    /\ log[1].val = <<"\\", "*", "a">>
    /\ log[1].text = <<"\\", "*", "a">>

-----------------------------------------------------------------------------
(* What a generate call on a line-oriented backend writes, checked under  *)
(* SpecLine                                                                *)

\* this step is a generate call that completed normally
GenerateCompleted ==
    /\ Len(log') = Len(log) + 1
    /\ log'[Len(log')].op = "generate"
    /\ log'[Len(log')].raised = "none"

\* C18: a generate call of a line-oriented backend that completes normally
\* writes exactly one line per parsed condition of the rule to self.output,
\* in order, and writes nothing anywhere else.
Cex_C18_OneLinePerCondition ==
    [][ GenerateCompleted =>
            /\ stdout' = stdout
            /\ Len(output') = Len(output) + Len(log'[Len(log')].rule.condparsed)
            /\ SubSeq(output', 1, Len(output)) = output
            /\ \A i \in (Len(output) + 1)..Len(output') : ~Contains(output'[i], NL)
      ]_vars

-----------------------------------------------------------------------------
(* Identifiers and failures of the multi-rule backends, checked under     *)
(* SpecMulti                                                               *)

\* C19: the _id values of the entries of Kibana's accumulator are pairwise
\* distinct, and each is a member of the rule-name registry, also when a rule
\* has more than one parsed condition.
Cex_C19_IdsDistinct ==
    backend = "kibana" =>
        /\ \A i, j \in 1..Len(kibanaconf) :
               i # j => kibanaconf[i]._id # kibanaconf[j]._id
        /\ \A i \in 1..Len(kibanaconf) : kibanaconf[i]._id \in rulenames

\* C20: a generate call on Kibana or X-Pack Watcher that fails leaves the
\* rule-name registry and the accumulator as they were before the call, so
\* that a later rule with the same title gets the name the failed rule would
\* have got.
Cex_C20_FailureLeavesState ==
    [][ (/\ Len(log') = Len(log) + 1
         /\ log'[Len(log')].op = "generate"
         /\ log'[Len(log')].raised # "none")
        => /\ rulenames' = rulenames
           /\ kibanaconf' = kibanaconf
           /\ watcher_alert' = watcher_alert
      ]_vars

-----------------------------------------------------------------------------
(* The prefix of the lines QRadar writes, checked under SpecLine *)

\* C21: every line the QRadar backend writes begins with
\* "SELECT UTF8(payload) as search_payload from events where ", also the
\* second and later conditions of a rule whose earlier condition rendered a
\* map item with an allow-listed field.
Cex_C21_EveryLineHasPrefix ==
    backend = "qradar" =>
        \A i \in 1..Len(output) : IsPrefix(const_start, output[i])

-----------------------------------------------------------------------------
(* The cleaned form of es-qs, checked under SpecClean *)

\* text read from position i on, leftmost first, has every match of the
\* expression right after a backslash that escapes it: a backslash is followed
\* by the match it escapes, and no match starts anywhere else
RECURSIVE EscapedFrom(_, _, _)
EscapedFrom(re, text, i) ==
    IF i > Len(text) THEN TRUE
    ELSE IF text[i] = "\\"
         THEN IF i + 2 <= Len(text) /\ <<text[i + 1], text[i + 2]>> \in re.pairs
              THEN EscapedFrom(re, text, i + 3)
              ELSE /\ i + 1 <= Len(text)
                   /\ text[i + 1] \in re.chars
                   /\ EscapedFrom(re, text, i + 2)
    ELSE /\ text[i] \notin re.chars
         /\ ~(i < Len(text) /\ <<text[i], text[i + 1]>> \in re.pairs)
         /\ EscapedFrom(re, text, i + 1)

\* C22: the cleaned form es-qs gives any value has no unescaped query-string
\* special token: every character or sequence the escape expression matches,
\* && and || included, comes right after an inserted backslash, and the text
\* has neither < nor >, although the strip step runs after the escape step.
Cex_C22_NoUnescapedToken ==
    backend = "es-qs" =>
        \A k \in 1..Len(log) :
            /\ EscapedFrom(ElasticsearchQuerystringBackend.reEscape, log[k].text, 1)
            /\ \A i \in 1..Len(log[k].text) : log[k].text[i] \notin {"<", ">"}

====
